---- MODULE Spec2Model ----
(***************************************************************************)
(* A model of ApeCrunch's expression pipeline: the parser (parser.rs), the *)
(* evaluator (op_engine.rs), the symbol table (variable.rs), the number    *)
(* type (number.rs) and the session's answer history (session.rs).         *)
(*                                                                         *)
(* Text is a sequence of one-character strings.  Indices that the Rust     *)
(* code keeps (splitpoint, index) are kept 0-based as in the source; the   *)
(* 1-based TLA+ sequence index of the same character is that value + 1.    *)
(* A character of more than one byte in UTF-8 is one element, named by its *)
(* code point ("U+00E9").  match_outside_parenthesis counts characters     *)
(* while parse measures and slices the string in bytes; the model keeps    *)
(* the two apart (len_utf8, StrLen, ByteSlice).                            *)
(***************************************************************************)
EXTENDS Integers, Sequences, FiniteSets, TLC

VARIABLES
    text,       \* the input string last handed to parse / parse_str
    via,        \* the function called last: "parse", "parse_str", "add", "store",
                \* "remove", "merge", "simplify", "get_equality", "exponent", "root"
    out,        \* the Result the parser returned for text
    session,    \* the Session: vartable, entries, previous_entries, decimal_places
    vtAtParse,  \* the symbol table as it was when text was parsed
    result,     \* the Result of the last get_equality, simplify, exponent or root
    before,     \* the session as it was when the last evaluation started
    lastStore,  \* per identifier, the value of the latest Store of a successful evaluation
    entryTable, \* per history entry, the symbol table as it was when the entry was parsed
    pc,         \* position of the caller: "idle", "parsed", "evaluated", "crashed"
    table,      \* a VarTable driven directly through its public methods
    tableRes,   \* the Result of the last VarTable method call
    tableBefore, \* the VarTable as it was when the last method call started
    tableArg,   \* the argument of the last VarTable method call
    tokens,     \* a Token tree built by a caller of op_engine
    numSelf,    \* the Number that exponent or root is called on
    numArg,     \* the exponent, or the degree of the root
    numPrec,    \* the precision handed to exponent or root
    xIter,      \* x of the Newton-Raphson loop of root, run step by step
    lastMove,   \* last_move of that loop
    historyItems \* the number of items of the history list of the TUI

vars == <<text, via, out, session, vtAtParse, result, before,
          lastStore, entryTable, pc, table, tableRes,
          tableBefore, tableArg, tokens, numSelf, numArg, numPrec, xIter, lastMove, historyItems>>

(***************************************************************************)
(* Bounds of the model.                                                    *)
(***************************************************************************)
\* Every string over Alphabet up to this length is a parser input.
MaxLen == 3

\* Operator chains  atom (op atom)^k  are parser inputs for k up to this.
MaxChain == 2

\* Inputs submitted in one run of a session.
MaxSubmits == 3

(***************************************************************************)
(* Characters and strings.                                                 *)
(***************************************************************************)
\* The characters the model uses in the order of their UTF-8 bytes, which is
\* the order of String::cmp: the ASCII characters, then e acute (U+00E9), pi
\* (U+03C0) and hiragana a (U+3042).
CharOrder ==
    <<" ", "#", "&", "(", ")", "*", "+", "-", ".", "/",
      "0", "1", "2", "3", "4", "5", "6", "7", "8", "9",
      "=", ">", "@", "^",
      "a", "b", "c", "d", "e", "f", "g", "h", "i", "j", "k", "l", "m",
      "n", "o", "p", "q", "r", "s", "t", "u", "v", "w", "x", "y", "z",
      "U+00E9", "U+03C0", "U+3042">>

CharCode(c) == CHOOSE i \in 1..Len(CharOrder) : CharOrder[i] = c

Digits == {"0", "1", "2", "3", "4", "5", "6", "7", "8", "9"}

Letters == {"a", "b", "c", "d", "e", "f", "g", "h", "i", "j", "k", "l", "m",
            "n", "o", "p", "q", "r", "s", "t", "u", "v", "w", "x", "y", "z",
            "U+00E9", "U+03C0", "U+3042"}

is_numeric(c) == c \in Digits

is_alphabetic(c) == c \in Letters

is_whitespace(c) == c = " "

DigitValue(c) == CharCode(c) - CharCode("0")

\* Ordering::Less / Equal / Greater of two strings, as String::cmp gives it.
RECURSIVE StrCmp(_, _)
StrCmp(a, b) ==
    IF a = <<>> /\ b = <<>> THEN "Equal"
    ELSE IF a = <<>> THEN "Less"
    ELSE IF b = <<>> THEN "Greater"
    ELSE IF CharCode(Head(a)) < CharCode(Head(b)) THEN "Less"
    ELSE IF CharCode(Head(a)) > CharCode(Head(b)) THEN "Greater"
    ELSE StrCmp(Tail(a), Tail(b))

\* char::len_utf8: the number of bytes of a character.
len_utf8(c) == IF c = "U+3042" THEN 3 ELSE IF c \in {"U+00E9", "U+03C0"} THEN 2 ELSE 1

\* str::len: the length of a string in bytes.
RECURSIVE StrLen(_)
StrLen(string) ==
    IF string = <<>> THEN 0 ELSE len_utf8(Head(string)) + StrLen(Tail(string))

\* The value of a string of decimal digits.
RECURSIVE DecValue(_)
DecValue(s) ==
    IF s = <<>> THEN 0
    ELSE 10 * DecValue(SubSeq(s, 1, Len(s) - 1)) + DigitValue(s[Len(s)])

AllDigits(s) == s # <<>> /\ \A i \in 1..Len(s) : is_numeric(s[i])

(***************************************************************************)
(* Results.                                                                *)
(***************************************************************************)
Ok(v) == [kind |-> "ok", val |-> v]

Err(m) == [kind |-> "err", msg |-> m]

\* An unwinding panic (unwrap on None, todo!(), slice out of range).
Panic(m) == [kind |-> "panic", msg |-> m]

\* is_char_boundary, walking the string from character k with n bytes to go:
\* the number of characters in front of the byte, and -1 when the byte is
\* inside a character or past the end.
RECURSIVE CharIndex(_, _, _)
CharIndex(string, n, k) ==
    IF n = 0 THEN k
    ELSE IF n < 0 \/ k >= Len(string) THEN -1
    ELSE CharIndex(string, n - len_utf8(string[k + 1]), k + 1)

\* The characters a + 1 .. b of string, where a and b are the character
\* counts of two byte indices and -1 stands for a byte index that is inside
\* a character or past the end.
SliceBetween(string, a, b) ==
    IF a = -1 \/ b = -1 \/ a > b
    THEN Panic("byte index is out of bounds or not a char boundary")
    ELSE Ok(SubSeq(string, a + 1, b))

\* &string[from..to]: the bytes from from up to to, which must be in order,
\* in range and on character boundaries; the slice panics otherwise.
ByteSlice(string, from, to) ==
    SliceBetween(string, CharIndex(string, from, 0), CharIndex(string, to, 0))

\* Option
Some(v) == [kind |-> "some", val |-> v]

None == [kind |-> "none"]

(***************************************************************************)
(* Number: an exact rational, or one of the sentinels Infinity and NaN.    *)
(***************************************************************************)
\* Euclid's algorithm, as a function so that each remainder is computed once.
Gcd(a, b) ==
    LET euclid[p \in Nat \X Nat] ==
            IF p[2] = 0 THEN p[1] ELSE euclid[<<p[2], p[1] % p[2]>>]
    IN  euclid[<<a, b>>]

Abs(n) == IF n < 0 THEN -n ELSE n

NaN == [k |-> "NaN"]

Infinity(sign) == [k |-> "Infinity", sign |-> sign]

\* A reduced fraction with a positive denominator. The program's fractions
\* are of unbounded integers and the model's integers are 32 bits wide, so
\* the operations below divide out common factors before they multiply;
\* the fraction they give is the same.
Rat(n, d) ==
    LET g == Gcd(Abs(n), Abs(d))
        s == IF d < 0 THEN -1 ELSE 1
    IN  [k |-> "Rat", n |-> s * (n \div g), d |-> s * (d \div g)]

Int2Num(n) == [k |-> "Rat", n |-> n, d |-> 1]

SignOf(x) ==
    IF x.k = "Infinity" THEN x.sign
    ELSE IF x.k = "Rat" /\ x.n < 0 THEN -1 ELSE 1

IsZero(x) == x.k = "Rat" /\ x.n = 0

\* BigFraction::from_str: an optional sign, then decimal digits, possibly
\* with one decimal point.
BigFractionFromStr(str) ==
    LET signed == str # <<>> /\ str[1] \in {"-", "+"}
        sign == IF str # <<>> /\ str[1] = "-" THEN -1 ELSE 1
        s == IF signed THEN Tail(str) ELSE str
    IN  IF AllDigits(s) THEN Ok(Int2Num(sign * DecValue(s)))
        ELSE IF \E p \in 1..Len(s) :
                   /\ s[p] = "."
                   /\ AllDigits(SubSeq(s, 1, p - 1))
                   /\ AllDigits(SubSeq(s, p + 1, Len(s)))
             THEN LET p == CHOOSE q \in 1..Len(s) : s[q] = "."
                      frac == SubSeq(s, p + 1, Len(s))
                      scale == 10 ^ Len(frac)
                  IN  Ok(Rat(sign * (DecValue(SubSeq(s, 1, p - 1)) * scale + DecValue(frac)),
                             scale))
        ELSE Err("ParseError")

\* Number::from_str
NumberFromStr(s) == BigFractionFromStr(s)

neg_one == Int2Num(-1)

multiply(a, b) ==
    IF a.k = "NaN" \/ b.k = "NaN" THEN NaN
    ELSE IF a.k = "Infinity" \/ b.k = "Infinity"
         THEN IF IsZero(a) \/ IsZero(b) THEN NaN ELSE Infinity(SignOf(a) * SignOf(b))
    ELSE LET g1 == Gcd(Abs(a.n), b.d)
             g2 == Gcd(Abs(b.n), a.d)
         IN  Rat((a.n \div g1) * (b.n \div g2), (a.d \div g2) * (b.d \div g1))

negative(a) == multiply(a, neg_one)

add(a, b) ==
    IF a.k = "NaN" \/ b.k = "NaN" THEN NaN
    ELSE IF a.k = "Infinity" /\ b.k = "Infinity"
         THEN IF a.sign = b.sign THEN a ELSE NaN
    ELSE IF a.k = "Infinity" THEN a
    ELSE IF b.k = "Infinity" THEN b
    ELSE LET g == Gcd(a.d, b.d)
         IN  Rat(a.n * (b.d \div g) + b.n * (a.d \div g), (a.d \div g) * b.d)

subtract(a, b) ==
    IF a.k = "NaN" \/ b.k = "NaN" THEN NaN
    ELSE IF a.k = "Infinity" /\ b.k = "Infinity"
         THEN IF a.sign # b.sign THEN a ELSE NaN
    ELSE IF a.k = "Infinity" THEN a
    ELSE IF b.k = "Infinity" THEN Infinity(-b.sign)
    ELSE LET g == Gcd(a.d, b.d)
         IN  Rat(a.n * (b.d \div g) - b.n * (a.d \div g), (a.d \div g) * b.d)

divide(a, b) ==
    IF a.k = "NaN" \/ b.k = "NaN" THEN NaN
    ELSE IF a.k = "Infinity"
         THEN IF b.k = "Infinity" THEN NaN ELSE Infinity(SignOf(a) * SignOf(b))
    ELSE IF b.k = "Infinity" THEN Int2Num(0)
    ELSE IF b.n = 0
         THEN IF a.n = 0 THEN NaN ELSE Infinity(SignOf(a))
    ELSE LET g1 == Gcd(Abs(a.n), Abs(b.n))
             g2 == Gcd(a.d, b.d)
         IN  Rat((a.n \div g1) * (b.d \div g2), (a.d \div g2) * (b.n \div g1))

\* Number::pow: num multiplied |numerator|-1 times by itself, then inverted
\* for a negative power; the power's denominator is ignored.
RECURSIVE PowLoop(_, _, _)
PowLoop(num, res, i) ==
    IF i > 1 THEN PowLoop(num, multiply(num, res), i - 1) ELSE res

pow(num, p) ==
    IF num.k \in {"Infinity", "NaN"} THEN num
    ELSE LET res == PowLoop(num, num, Abs(p.n))
         IN  IF p.n < 0 THEN divide(Int2Num(1), res) ELSE res

\* PartialOrd of two Numbers: "Less", "Equal", "Greater", or "None" with a NaN.
NumCmp(a, b) ==
    IF a.k = "NaN" \/ b.k = "NaN" THEN "None"
    ELSE IF a.k = "Infinity" /\ b.k = "Infinity"
         THEN IF a.sign = b.sign THEN "Equal" ELSE IF a.sign < b.sign THEN "Less" ELSE "Greater"
    ELSE IF a.k = "Infinity" THEN IF a.sign < 0 THEN "Less" ELSE "Greater"
    ELSE IF b.k = "Infinity" THEN IF b.sign < 0 THEN "Greater" ELSE "Less"
    ELSE LET g == Gcd(a.d, b.d)
         IN  IF a.n * (b.d \div g) < b.n * (a.d \div g) THEN "Less"
             ELSE IF a.n * (b.d \div g) > b.n * (a.d \div g) THEN "Greater"
             ELSE "Equal"

NumAbs(a) ==
    IF a.k = "NaN" THEN a
    ELSE IF a.k = "Infinity" THEN Infinity(1)
    ELSE [k |-> "Rat", n |-> Abs(a.n), d |-> a.d]

\* Number::round_denom: numer() and denom() are the unsigned parts of the
\* fraction, and denom() is None for Infinity and NaN.
round_denom(fract, denom) ==
    IF fract.k # "Rat" THEN Panic("unwrap on None")
    ELSE LET divisor == fract.d \div denom
         IN  IF divisor > 0 THEN Ok(Rat(Abs(fract.n) \div divisor, denom))
             ELSE Ok(fract)

\* The while loop of Number::root.  The loop has no bound on its rounds: it
\* ends when last_move falls below min_move.  seen holds the pairs of x and
\* last_move the loop test has met; the body is a function of that pair, so
\* a pair met again is met for ever, and the call never returns ("running").
RECURSIVE RootLoop(_, _, _, _, _, _, _, _)
RootLoop(a, rt, lroot, x, last_move, min_move, prec_working, seen) ==
    IF NumCmp(last_move, min_move) \notin {"Greater", "Equal"} THEN Ok(x)
    ELSE IF <<x, last_move>> \in seen THEN [kind |-> "running", val |-> x]
    ELSE LET rounded == round_denom(x, prec_working)
         IN  IF rounded.kind = "panic" THEN rounded
             ELSE LET x0 == rounded.val
                      x1 == subtract(x0, divide(subtract(pow(x0, rt), a),
                                                multiply(rt, pow(x0, lroot))))
                  IN  RootLoop(a, rt, lroot, x1, NumAbs(subtract(x1, x0)),
                               min_move, prec_working, seen \cup {<<x, last_move>>})

RECURSIVE exponent(_, _, _), root(_, _, _)
\* Number::exponent
exponent(self, exp, prec) ==
    IF self.k \in {"Infinity", "NaN"} THEN Ok(self)
    ELSE IF exp.k # "Rat" THEN Panic("unwrap on None")
    ELSE LET res == pow(self, exp)
         IN  IF exp.d = 1 THEN Ok(res) ELSE root(res, Int2Num(exp.d), prec)

\* Number::root
root(self, rootarg, prec) ==
    IF self.k \in {"Infinity", "NaN"} THEN Ok(self)
    ELSE IF self.n < 0 THEN Ok(NaN)
    ELSE IF rootarg.k # "Rat" THEN Panic("unwrap on None")
    ELSE LET prec_working == 10 ^ (prec + 3)
             min_move == Rat(1, 10 ^ (prec + 2))
             prec_final == 10 ^ (prec + 1)
             rt == Int2Num(Abs(rootarg.n))
             lroot == subtract(rt, Int2Num(1))
             loop == RootLoop(self, rt, lroot, divide(self, Int2Num(2)), Int2Num(1),
                              min_move, prec_working, {})
         IN  IF loop.kind # "ok" THEN loop
             ELSE LET fin == round_denom(loop.val, prec_final)
                  IN  IF fin.kind = "panic" THEN fin
                      ELSE LET res == IF rootarg.n < 0 THEN divide(Int2Num(1), fin.val)
                                      ELSE fin.val
                           IN  IF rootarg.d = 1 THEN Ok(res)
                               ELSE exponent(res, Int2Num(rootarg.d), prec)

(***************************************************************************)
(* Token: the expression tree.                                             *)
(***************************************************************************)
TNumber(n) == [t |-> "Number", number |-> n]

TBoolean(b) == [t |-> "Boolean", boolean |-> b]

TBinary(variant, l, r) == [t |-> variant, left |-> l, right |-> r]

TParenthesis(e) == [t |-> "Parenthesis", expression |-> e]

TNegative(e) == [t |-> "Negative", expression |-> e]

TAnswer(uuid) == [t |-> "Answer", uuid |-> uuid]

TVariable(v) == [t |-> "Variable", variable |-> v]

TStore(id, e) == [t |-> "Store", id |-> id, tokens |-> e]

BinaryVariants == {"Exponent", "Multiply", "Divide", "Add", "Subtract", "Equality"}

ArithmeticVariants == {"Exponent", "Multiply", "Divide", "Add", "Subtract"}

(***************************************************************************)
(* Variable and VarTable (variable.rs).                                    *)
(***************************************************************************)
Variable(id, value) == [id |-> id, tokens |-> value]

VarTableNew == <<>>

\* slice::binary_search_by with the comparator |i| i.id.cmp(id):
\* [found |-> TRUE, i |-> position] or [found |-> FALSE, i |-> insertion point],
\* positions 0-based.
RECURSIVE BinarySearchLoop(_, _, _, _)
BinarySearchLoop(variables, id, left, right) ==
    IF left >= right THEN [found |-> FALSE, i |-> left]
    ELSE LET mid == left + ((right - left) \div 2)
             c == StrCmp(variables[mid + 1].id, id)
         IN  IF c = "Less" THEN BinarySearchLoop(variables, id, mid + 1, right)
             ELSE IF c = "Greater" THEN BinarySearchLoop(variables, id, left, mid)
             ELSE [found |-> TRUE, i |-> mid]

binary_search_by(variables, id) == BinarySearchLoop(variables, id, 0, Len(variables))

\* An insert that appends, whatever the position asked for.
VecInsertAtEnd(s, i, v) == Append(s, v)

\* Vec::insert(i, v), i 0-based
VecInsert(s, i, v) == SubSeq(s, 1, i) \o <<v>> \o SubSeq(s, i + 1, Len(s))

\* Vec::remove(i), i 0-based
VecRemove(s, i) == SubSeq(s, 1, i) \o SubSeq(s, i + 2, Len(s))

\* An add that replaces the binding when the identifier is already bound.
VarTableAddOrReplace(vt, var) ==
    LET s == binary_search_by(vt, var.id)
    IN  IF s.found THEN [res |-> Ok("unit"), vt |-> [vt EXCEPT ![s.i + 1] = var]]
        ELSE [res |-> Ok("unit"), vt |-> VecInsert(vt, s.i, var)]

\* Each VarTable method gives [res |-> Result, vt |-> the table afterwards].
VarTableAdd(vt, var) ==
    LET s == binary_search_by(vt, var.id)
    IN  IF s.found THEN [res |-> Err("Variable already found!"), vt |-> vt]
        ELSE [res |-> Ok("unit"), vt |-> VecInsert(vt, s.i, var)]

VarTableRemove(vt, id) ==
    LET s == binary_search_by(vt, id)
    IN  IF s.found THEN [res |-> Ok("unit"), vt |-> VecRemove(vt, s.i)]
        ELSE [res |-> Err("Variable not found!"), vt |-> vt]

VarTableStore(vt, var) ==
    LET s == binary_search_by(vt, var.id)
    IN  IF s.found THEN [res |-> Ok("unit"), vt |-> [vt EXCEPT ![s.i + 1] = var]]
        ELSE [res |-> Ok("unit"), vt |-> VecInsert(vt, s.i, var)]

\* A get that gives the first entry of the table whenever the identifier is bound.
VarTableGetFirst(vt, id) ==
    LET s == binary_search_by(vt, id)
    IN  IF s.found THEN Ok(vt[1]) ELSE Err("Variable not found!")

VarTableGet(vt, id) ==
    LET s == binary_search_by(vt, id)
    IN  IF s.found THEN Ok(vt[s.i + 1]) ELSE Err("Variable not found!")

RECURSIVE VarTableMergeLoop(_, _, _)
VarTableMergeLoop(vt, other, k) ==
    IF k > Len(other) THEN [res |-> Ok("unit"), vt |-> vt]
    ELSE LET st == VarTableStore(vt, other[k])
         IN  IF st.res.kind # "ok" THEN st ELSE VarTableMergeLoop(st.vt, other, k + 1)

\* A merge in which the bindings of self win over those of the other table.
VarTableMergeSelfWins(vt, other) == VarTableMergeLoop(other, vt, 1)

VarTableMerge(vt, other) == VarTableMergeLoop(vt, other, 1)

(***************************************************************************)
(* Session: the symbol table and the answer history (session.rs).          *)
(***************************************************************************)
DEFAULT_DECIMAL_PLACES == 6

HistoryEntry(uuid, expression) == [entry_uuid |-> uuid, expression |-> expression]

\* Session::get_entries
get_entries(s) == s.previous_entries \o s.entries

\* Session::add_entry
\* An add_entry that puts the entry in front of the others.
add_entry_InFront(s, entry) == [s EXCEPT !.entries = <<entry>> \o @]

add_entry(s, entry) == [s EXCEPT !.entries = Append(@, entry)]

\* A lookup that counts from the oldest entry instead of the most recent one.
get_entry_inv_index_FromOldest(s, inverse_index) ==
    IF inverse_index >= Len(s.previous_entries) + Len(s.entries) THEN None
    ELSE Some((s.previous_entries \o s.entries)[inverse_index + 1])

\* Session::get_entry_inv_index
get_entry_inv_index(s, inverse_index) ==
    IF inverse_index >= Len(s.previous_entries) + Len(s.entries) THEN None
    ELSE LET inv == inverse_index + 1
         IN  IF inv > Len(s.entries)
             THEN Some(s.previous_entries[Len(s.previous_entries) - (inv - Len(s.entries)) + 1])
             ELSE Some(s.entries[Len(s.entries) - inv + 1])

\* Iterator::position over a list of entries: the 0-based index of the first
\* entry with the uuid.
Position(list, uuid) ==
    IF \E i \in 1..Len(list) : list[i].entry_uuid = uuid
    THEN Some((CHOOSE i \in 1..Len(list) :
                  /\ list[i].entry_uuid = uuid
                  /\ \A j \in 1..(i - 1) : list[j].entry_uuid # uuid) - 1)
    ELSE None

\* Session::get_inv_index_from_uuid, as the set of the outcomes the build can
\* give. The lengths and indices are usize. For an entry of previous_entries
\* at index, index - 1 - entries.len() is below zero when index <= entries.len():
\* a build with overflow checks panics there, and a build without them wraps
\* modulo 2^64 in that subtraction and again in the outer one, which leaves
\* previous_entries.len() - index + 1 + entries.len(), a number between 0
\* and 2^64. When index > entries.len() nothing wraps and the value is the same.
get_inv_index_from_uuid(s, uuid) ==
    IF Position(s.entries, uuid).kind = "some"
    THEN {Some(Len(s.entries) - Position(s.entries, uuid).val - 1)}
    ELSE IF Position(s.previous_entries, uuid).kind = "some"
    THEN LET index == Position(s.previous_entries, uuid).val
             wrapped == Some(Len(s.previous_entries) - (index - 1 - Len(s.entries)))
         IN  IF index - 1 - Len(s.entries) < 0
             THEN {Panic("attempt to subtract with overflow"), wrapped}
             ELSE {wrapped}
    ELSE {None}

\* Iterator::find over a list of entries: the first entry with the uuid.
FindEntry(list, uuid) ==
    IF \E i \in 1..Len(list) : list[i].entry_uuid = uuid
    THEN Some(list[CHOOSE i \in 1..Len(list) :
                      /\ list[i].entry_uuid = uuid
                      /\ \A j \in 1..(i - 1) : list[j].entry_uuid # uuid])
    ELSE None

\* Session::get_entry_from_uuid: the function ends in todo!() where it
\* should give None.
get_entry_from_uuid(s, uuid) ==
    IF FindEntry(s.entries, uuid).kind = "some" THEN FindEntry(s.entries, uuid)
    ELSE IF FindEntry(s.previous_entries, uuid).kind = "some"
         THEN FindEntry(s.previous_entries, uuid)
    ELSE Panic("not yet implemented")

\* HistoryEntry::without_equality: the entry's expression, or the left side
\* of it when the expression is an Equality.
without_equality(entry) ==
    IF entry.expression.t = "Equality" THEN entry.expression.left
    ELSE entry.expression

(***************************************************************************)
(* Parser (parser.rs).                                                     *)
(***************************************************************************)
NEG_SYMBOL == <<"&">>

STORE_SYMBOL == <<"-", ">">>

ANSWER_SYMBOL == <<"@">>

ORDER_OF_OPS ==
    <<STORE_SYMBOL, <<"=">>, <<"-">>, <<"+">>, <<"/">>, <<"*">>, NEG_SYMBOL, <<"^">>, ANSWER_SYMBOL>>

\* The Token variant built for a two-sided operator symbol.
VariantOf(opcode) ==
    CASE opcode = <<"^">> -> "Exponent"
      [] opcode = <<"-">> -> "Subtract"
      [] opcode = <<"+">> -> "Add"
      [] opcode = <<"/">> -> "Divide"
      [] opcode = <<"*">> -> "Multiply"
      [] opcode = <<"=">> -> "Equality"

\* The for loop of match_outside_parenthesis from character i (0-based) on:
\* Some(index), None, or Err for unmatched parentheses.  i counts characters;
\* substring[..compare_string.len()] is a slice in bytes and panics when the
\* compare string has more bytes than the substring.
RECURSIVE MatchLoop(_, _, _, _, _, _)
MatchLoop(string, substring, i, nest_level, index, compare_string) ==
    IF i >= Len(string)
    THEN IF nest_level > 0 THEN Err("Forgot to close parenthesis!")
         ELSE IF nest_level < 0 THEN Err("Too many closing parenthesis!")
         ELSE None
    ELSE LET character == string[i + 1]
             reset == character = "(" /\ index # 0
             index1 == IF reset THEN 0 ELSE index
             compare1 == IF reset THEN <<>> ELSE compare_string
             nest1 == nest_level + (IF character = "(" THEN 1 ELSE 0)
                                 - (IF character = ")" THEN 1 ELSE 0)
         IN  IF nest1 # 0
             THEN MatchLoop(string, substring, i + 1, nest1, index1, compare1)
             ELSE LET compare2 == Append(compare1, character)
                      prefix == ByteSlice(substring, 0, StrLen(compare2))
                  IN  IF prefix.kind = "panic" THEN prefix
                      ELSE IF compare2 = prefix.val
                      THEN LET index2 == IF index1 = 0 THEN i ELSE index1
                           IN  IF StrLen(compare2) = StrLen(substring) THEN Some(index2)
                               ELSE MatchLoop(string, substring, i + 1, nest1, index2, compare2)
                      ELSE MatchLoop(string, substring, i + 1, nest1, 0, <<>>)

match_outside_parenthesis(string, substring) ==
    MatchLoop(string, substring, 0, 0, 0, <<>>)

\* VAR_NAMECHECK_RE, the characters a store target must not contain.
VAR_NAMECHECK == {"@", "=", "-", "+", "/", "*", "^", ">", "&"}

VarNameCheckIsMatch(s) == \E i \in 1..Len(s) : s[i] \in VAR_NAMECHECK

\* usize::from_str
UsizeFromStr(s) ==
    IF AllDigits(s) THEN Ok(DecValue(s))
    ELSE IF s # <<>> /\ s[1] = "+" /\ AllDigits(Tail(s)) THEN Ok(DecValue(Tail(s)))
    ELSE Err("ParseIntError")

RECURSIVE parse(_, _), ParseOps(_, _, _)

\* The tail of parse, reached when no operator splits the string.
ParseAtom(string, s) ==
    IF string = <<>> THEN Panic("unwrap on None")
    ELSE IF is_numeric(string[1])
         THEN LET n == NumberFromStr(string)
              IN  IF n.kind = "ok" THEN Ok(TNumber(n.val)) ELSE n
    ELSE IF is_alphabetic(string[1])
         THEN LET v == VarTableGet(s.vartable, string)
              IN  IF v.kind = "ok" THEN Ok(TVariable(v.val)) ELSE v
    ELSE IF string[1] = "("
         THEN LET slice == ByteSlice(string, 1, StrLen(string) - 1)
                  inner == parse(slice.val, s)
              IN  IF slice.kind = "panic" THEN slice
                  ELSE IF inner.kind = "ok" THEN Ok(TParenthesis(inner.val)) ELSE inner
    ELSE Err("Invalid Expression")

\* The match on opcode of parse, with the two sides of the split.
ParseArms(left, right, s, opcode) ==
    IF opcode = ANSWER_SYMBOL
    THEN LET inv == UsizeFromStr(right)
         IN  IF inv.kind # "ok" THEN inv
             ELSE LET entry == get_entry_inv_index(s, inv.val)
                  IN  IF entry.kind = "some" THEN Ok(TAnswer(entry.val.entry_uuid))
                      ELSE Err("Invalid answer")
    ELSE IF opcode = NEG_SYMBOL
    THEN LET r == parse(right, s)
         IN  IF r.kind = "ok" THEN Ok(TNegative(r.val)) ELSE r
    ELSE IF opcode = STORE_SYMBOL
    THEN IF VarNameCheckIsMatch(right) THEN Err("Invalid variable name")
         ELSE LET l == parse(left, s)
              IN  IF l.kind = "ok" THEN Ok(TStore(right, l.val)) ELSE l
    ELSE LET l == parse(left, s)
         IN  IF l.kind # "ok" THEN l
             ELSE LET r == parse(right, s)
                  IN  IF r.kind = "ok" THEN Ok(TBinary(VariantOf(opcode), l.val, r.val))
                      ELSE r

\* What parse returns once opcode has been found at splitpoint and kept.
\* splitpoint is the character index that match_outside_parenthesis gave;
\* string[..splitpoint] and string[splitpoint + opcode.len()..] slice bytes.
ParseSplit(string, s, opcode, splitpoint) ==
    LET left == ByteSlice(string, 0, splitpoint)
        right == ByteSlice(string, splitpoint + StrLen(opcode), StrLen(string))
    IN  IF left.kind = "panic" THEN left
        ELSE IF right.kind = "panic" THEN right
        ELSE ParseArms(left.val, right.val, s, opcode)

\* The for loop of parse over ORDER_OF_OPS, from the k-th operator on.
ParseOps(string, s, k) ==
    IF k > Len(ORDER_OF_OPS) THEN ParseAtom(string, s)
    ELSE LET opcode == ORDER_OF_OPS[k]
             op_index == match_outside_parenthesis(string, opcode)
         IN  IF op_index.kind \in {"err", "panic"} THEN op_index
             ELSE IF op_index.kind = "none" THEN ParseOps(string, s, k + 1)
             ELSE LET splitpoint == op_index.val
                  IN  IF \/ splitpoint + 1 = StrLen(string)
                         \/ (splitpoint = 0 /\ opcode # NEG_SYMBOL /\ opcode # ANSWER_SYMBOL)
                      THEN Err("Incomplete Expression")
                      ELSE IF splitpoint # 0 /\ opcode = NEG_SYMBOL
                      THEN ParseOps(string, s, k + 1)
                      ELSE ParseSplit(string, s, opcode, splitpoint)

parse(string, s) == ParseOps(string, s, 1)

\* The characters NEGATIVE_RE accepts before a minus sign.
NEGATIVE_PREFIX == {"(", "=", "-", "+", "/", "*", "^"}

\* NEGATIVE_RE.replace_all: matches are taken left to right and do not overlap.
RECURSIVE NegativeReplaceAll(_, _)
NegativeReplaceAll(str, p) ==
    IF p > Len(str) THEN <<>>
    ELSE IF p = 1 /\ str[1] = "-" THEN NEG_SYMBOL \o NegativeReplaceAll(str, 2)
    ELSE IF p < Len(str) /\ str[p] \in NEGATIVE_PREFIX /\ str[p + 1] = "-"
         THEN <<str[p]>> \o NEG_SYMBOL \o NegativeReplaceAll(str, p + 2)
    ELSE <<str[p]>> \o NegativeReplaceAll(str, p + 1)

\* COMMENT_RE.replace_all: everything from the first # on is dropped.
StripComment(str) ==
    IF \E i \in 1..Len(str) : str[i] = "#"
    THEN SubSeq(str, 1, (CHOOSE i \in 1..Len(str) :
                            str[i] = "#" /\ \A j \in 1..(i - 1) : str[j] # "#") - 1)
    ELSE str

StripWhitespace(str) == SelectSeq(str, LAMBDA c : ~is_whitespace(c))

\* The string parse_str hands to parse.
Cleaned(string) == NegativeReplaceAll(StripComment(StripWhitespace(string)), 1)

parse_str(string, s) ==
    IF StripComment(StripWhitespace(string)) = <<>> THEN Err("Empty Expression!")
    ELSE parse(Cleaned(string), s)

(***************************************************************************)
(* Evaluator (op_engine.rs).  simplify takes the session by &mut, so the   *)
(* model's simplify gives [res |-> the Result, s |-> the session as the    *)
(* call left it], whether the call returned or not.                        *)
(***************************************************************************)
\* The Number operation that folds a binary arithmetic node.
Fold(variant, l, r, prec) ==
    CASE variant = "Multiply" -> Ok(multiply(l, r))
      [] variant = "Divide"   -> Ok(divide(l, r))
      [] variant = "Add"      -> Ok(add(l, r))
      [] variant = "Subtract" -> Ok(subtract(l, r))
      [] variant = "Exponent" -> exponent(l, r, prec)

\* A Variable arm that reads the identifier's binding of the moment.
SimplifyVariableLive(token, s) ==
    LET v == VarTableGet(s.vartable, token.variable.id)
    IN  IF v.kind = "ok" THEN Ok(v.val.tokens) ELSE v

\* The Token::Variable arm of simplify: the snapshot taken by the parser.
SimplifyVariable(token, s) == Ok(token.variable.tokens)

\* The sub-expression that a one-operand arm of simplify goes on to simplify:
\* the operand of Parenthesis, Negative and Store, and for Answer the entry
\* that session.get_entry_from_uuid found, without its equality.
Operand(token, s) ==
    IF token.t = "Answer" THEN without_equality(get_entry_from_uuid(s, token.uuid).val)
    ELSE IF token.t = "Store" THEN token.tokens
    ELSE token.expression

\* One-operand arms whose Parenthesis arm keeps the parentheses around what
\* its operand simplified to.
SimplifyOperandKeepsParenthesis(token, simplified) ==
    IF simplified.res.kind # "ok" THEN simplified
    ELSE IF token.t = "Parenthesis"
    THEN [res |-> Ok(TParenthesis(simplified.res.val)), s |-> simplified.s]
    ELSE IF token.t = "Negative"
    THEN IF simplified.res.val.t = "Number"
         THEN [res |-> Ok(TNumber(negative(simplified.res.val.number))), s |-> simplified.s]
         ELSE [res |-> Ok(TNegative(simplified.res.val)), s |-> simplified.s]
    ELSE IF token.t = "Store"
    THEN LET st == VarTableStore(simplified.s.vartable,
                                 Variable(token.id, simplified.res.val))
         IN  IF st.res.kind # "ok" THEN [res |-> st.res, s |-> simplified.s]
             ELSE [res |-> simplified.res,
                   s |-> [simplified.s EXCEPT !.vartable = st.vt]]
    ELSE simplified

\* One-operand arms whose Store arm binds the operand as it was given.
SimplifyOperandStoresGiven(token, simplified) ==
    IF simplified.res.kind # "ok" THEN simplified
    ELSE IF token.t = "Negative"
    THEN IF simplified.res.val.t = "Number"
         THEN [res |-> Ok(TNumber(negative(simplified.res.val.number))), s |-> simplified.s]
         ELSE [res |-> Ok(TNegative(simplified.res.val)), s |-> simplified.s]
    ELSE IF token.t = "Store"
    THEN LET st == VarTableStore(simplified.s.vartable, Variable(token.id, token.tokens))
         IN  IF st.res.kind # "ok" THEN [res |-> st.res, s |-> simplified.s]
             ELSE [res |-> simplified.res,
                   s |-> [simplified.s EXCEPT !.vartable = st.vt]]
    ELSE simplified

\* What a one-operand arm makes of its simplified operand.
SimplifyOperand(token, simplified) ==
    IF simplified.res.kind # "ok" THEN simplified
    ELSE IF token.t = "Negative"
    THEN IF simplified.res.val.t = "Number"
         THEN [res |-> Ok(TNumber(negative(simplified.res.val.number))), s |-> simplified.s]
         ELSE [res |-> Ok(TNegative(simplified.res.val)), s |-> simplified.s]
    ELSE IF token.t = "Store"
    THEN LET st == VarTableStore(simplified.s.vartable,
                                 Variable(token.id, simplified.res.val))
         IN  IF st.res.kind # "ok" THEN [res |-> st.res, s |-> simplified.s]
             ELSE [res |-> simplified.res,
                   s |-> [simplified.s EXCEPT !.vartable = st.vt]]
    ELSE simplified \* Parenthesis and Answer

\* Token::Number(..) around the outcome f of a Number operation.
NumberToken(f) == IF f.kind = "ok" THEN Ok(TNumber(f.val)) ELSE f

\* Two-operand arms whose Equality compares the sides as they were given.
SimplifyBinaryRawEquality(token, l, r, prec) ==
    IF token.t = "Equality"
    THEN [res |-> Ok(TBoolean(token.left = token.right)), s |-> r.s]
    ELSE IF l.res.val.t = "Number" /\ r.res.val.t = "Number"
    THEN [res |-> NumberToken(Fold(token.t, l.res.val.number, r.res.val.number, prec)),
          s |-> r.s]
    ELSE [res |-> Ok(TBinary(token.t, l.res.val, r.res.val)), s |-> r.s]

\* What a two-operand arm makes of its simplified operands.
SimplifyBinary(token, l, r, prec) ==
    IF token.t = "Equality" THEN [res |-> Ok(TBoolean(l.res.val = r.res.val)), s |-> r.s]
    ELSE IF l.res.val.t = "Number" /\ r.res.val.t = "Number"
    THEN [res |-> NumberToken(Fold(token.t, l.res.val.number, r.res.val.number, prec)),
          s |-> r.s]
    ELSE [res |-> Ok(TBinary(token.t, l.res.val, r.res.val)), s |-> r.s]

\* simplify, with the match arms of one shape taken together: the six
\* two-operand arms simplify the left side, then the right side, and fold;
\* the one-operand arms simplify their operand; the leaves are returned.
RECURSIVE simplify(_, _)
simplify(token, s) ==
    IF token.t \in BinaryVariants
    THEN LET l == simplify(token.left, s)
         IN  IF l.res.kind # "ok" THEN l
             ELSE LET r == simplify(token.right, l.s)
                  IN  IF r.res.kind # "ok" THEN r
                      ELSE SimplifyBinary(token, l, r, s.decimal_places)
    ELSE IF token.t \in {"Number", "Boolean"} THEN [res |-> Ok(token), s |-> s]
    ELSE IF token.t = "Variable" THEN [res |-> SimplifyVariable(token, s), s |-> s]
    ELSE IF token.t = "Answer" /\ get_entry_from_uuid(s, token.uuid).kind # "some"
    THEN IF get_entry_from_uuid(s, token.uuid).kind = "panic"
         THEN [res |-> get_entry_from_uuid(s, token.uuid), s |-> s]
         ELSE [res |-> Err("Invalid entry uuid"), s |-> s]
    ELSE SimplifyOperand(token, simplify(Operand(token, s), s))

\* Token::Equality(tokens, simplified) once simplify has returned r.
EqualityOf(toks, r) ==
    IF r.res.kind # "ok" THEN r
    ELSE [res |-> Ok(TBinary("Equality", toks, r.res.val)), s |-> r.s]

get_equality(toks, s) == EqualityOf(toks, simplify(toks, s))

(***************************************************************************)
(* The parser as a function of its input: one call of parse or parse_str   *)
(* on a text, in a session that already holds a variable and two answers.  *)
(***************************************************************************)
Alphabet == {"0", "1", "x", "(", ")", "-", ">", "=", "+", "/", "*", "&", "^", "@"}

ShortStrings == UNION {[1..n -> Alphabet] : n \in 0..MaxLen}

ChainAtoms == {<<"2">>, <<"x">>, <<"(", "1", ")">>}

RECURSIVE Chains(_)
Chains(k) ==
    IF k = 0 THEN ChainAtoms
    ELSE {c \o ORDER_OF_OPS[o] \o a :
            c \in Chains(k - 1), o \in 1..Len(ORDER_OF_OPS), a \in ChainAtoms}

ChainInputs == UNION {Chains(k) : k \in 0..MaxChain}

\* test_parser_var_name_check: "2->foo<op>bar" for every opcode of ORDER_OF_OPS
BadVariableInputs ==
    {<<"2","-",">","f","o","o","-",">","b","a","r">>,
     <<"2","-",">","f","o","o","=","b","a","r">>,
     <<"2","-",">","f","o","o","-","b","a","r">>,
     <<"2","-",">","f","o","o","+","b","a","r">>,
     <<"2","-",">","f","o","o","/","b","a","r">>,
     <<"2","-",">","f","o","o","*","b","a","r">>,
     <<"2","-",">","f","o","o","&","b","a","r">>,
     <<"2","-",">","f","o","o","^","b","a","r">>,
     <<"2","-",">","f","o","o","@","b","a","r">>}

\* Inputs of the repository's tests, and store expressions with an odd target.
TestInputs ==
    {<<"2"," ","+"," ","2">>,
     <<"2"," ","-"," ","2">>,
     <<"2"," ","*"," ","2">>,
     <<"2"," ","/"," ","2">>,
     <<"2","^","2">>,
     <<"2"," ","="," ","2">>,
     <<"2"," ","-",">"," ","x">>,
     <<"1","+","2","*","3","-","4","/","-","5","^","(","6","+","7",")">>,
     <<"2","-",">","x",")">>,
     <<"2","-",">","(","x">>,
     <<"2","-",">","1">>,
     <<"(","2","-",">","x",")","+","x">>,
     <<"2"," ","#"," ","t","w","o">>}

\* Texts put in front of an answer reference: a bound and an unbound variable,
\* a number, a malformed number, parentheses that do and do not pair up, and
\* letters of more than one byte.
LeftTexts ==
    {<<"x">>, <<"y">>, <<"1">>, <<"1", "x">>, <<"(", "y", ")">>, <<")", "(">>,
     <<"(", "(">>, <<")", "1">>, <<"U+00E9">>, <<"(", "U+00E9", ")">>, <<"(", "U+3042", ")">>}

\* Atoms that hold a letter of more than one byte inside parentheses.
MultiByteAtoms ==
    {<<"(", "2", "-", ">", "U+3042", ")">>, <<"(", "2", "-", ">", "U+00E9", ")">>}

\* Texts with letters of more than one byte: the atoms alone and at the head
\* of a chain of one operator, store targets, and bare identifiers.
MultiByteInputs ==
    MultiByteAtoms
        \cup {a \o op \o b \o op \o c :
                a \in MultiByteAtoms, b \in ChainAtoms, c \in ChainAtoms,
                op \in {<<"-">>, <<"+">>, <<"/">>, <<"*">>, <<"^">>}}
        \cup {<<"(", "2", "-", ">", "U+3042", ")", "1", "1", "+", "2">>,
              <<"2", "-", ">", "U+03C0">>,
              <<"U+03C0">>,
              <<"U+00E9">>,
              <<"(", "U+00E9", ")">>,
              <<"-", "U+00E9">>,
              <<"1", "+", "U+3042">>,
              <<"2", "-", ">", "U+00E9", "+", "1">>}

AnswerInputs == {l \o ANSWER_SYMBOL \o <<k>> : l \in LeftTexts, k \in {"0", "1", "2"}}

ParseInputs ==
    ShortStrings \cup ChainInputs \cup BadVariableInputs \cup TestInputs \cup AnswerInputs
        \cup MultiByteInputs

\* x is bound to 1; the previous session left the answer "3 = 3" and this
\* session has the answer "2 = 2".
ParseSession ==
    [vartable |-> <<Variable(<<"x">>, TNumber(Int2Num(1)))>>,
     entries |-> <<HistoryEntry(1, TBinary("Equality", TNumber(Int2Num(2)), TNumber(Int2Num(2))))>>,
     previous_entries |->
        <<HistoryEntry(101, TBinary("Equality", TNumber(Int2Num(3)), TNumber(Int2Num(3))))>>,
     decimal_places |-> DEFAULT_DECIMAL_PLACES]

InitParse ==
    /\ text \in ParseInputs
    /\ via = "none"
    /\ out = None
    /\ session = ParseSession
    /\ vtAtParse = <<>>
    /\ result = None
    /\ before = ParseSession
    /\ lastStore = <<>>
    /\ entryTable = <<>>
    /\ pc = "idle"
    /\ table = VarTableNew
    /\ tableRes = None
    /\ tableBefore = VarTableNew
    /\ tableArg = None
    /\ tokens = None
    /\ numSelf = None
    /\ numArg = None
    /\ numPrec = 0
    /\ xIter = None
    /\ lastMove = None
    /\ historyItems = 0

\* parse(text, &mut session): parse is written for strings without
\* whitespace, which is what parse_str hands it.
RunParse ==
    /\ via = "none"
    /\ \A i \in 1..Len(text) : ~is_whitespace(text[i])
    /\ via' = "parse"
    /\ out' = parse(text, session)
    /\ UNCHANGED <<text, session, vtAtParse, result, before, lastStore, entryTable,
                   pc, table, tableRes, tableBefore, tableArg, tokens, numSelf, numArg, numPrec, xIter, lastMove, historyItems>>

\* parse_str(text, &mut session)
RunParseStr ==
    /\ via = "none"
    /\ via' = "parse_str"
    /\ out' = parse_str(text, session)
    /\ UNCHANGED <<text, session, vtAtParse, result, before, lastStore, entryTable,
                   pc, table, tableRes, tableBefore, tableArg, tokens, numSelf, numArg, numPrec, xIter, lastMove, historyItems>>

NextParse == RunParse \/ RunParseStr

SpecParse == InitParse /\ [][NextParse]_vars

(***************************************************************************)
(* Claims about the parser.                                                *)
(***************************************************************************)
\* Nesting depth in front of the character at 0-based position p.
Depth(string, p) ==
    Cardinality({i \in 1..p : string[i] = "("}) - Cardinality({i \in 1..p : string[i] = ")"})

\* symbol occurs at 0-based position p, outside parentheses.
OccursOutside(string, symbol, p) ==
    /\ p + Len(symbol) <= Len(string)
    /\ SubSeq(string, p + 1, p + Len(symbol)) = symbol
    /\ Depth(string, p) = 0

HasOutside(string, symbol) ==
    \E p \in 0..(Len(string) - 1) : OccursOutside(string, symbol, p)

Leftmost(string, symbol) ==
    CHOOSE p \in 0..(Len(string) - 1) :
        /\ OccursOutside(string, symbol, p)
        /\ \A q \in 0..(p - 1) : ~OccursOutside(string, symbol, q)

\* The order of the operators and the node of each, as the claims state them.
ClaimedOrder ==
    << <<"-", ">">>, <<"=">>, <<"-">>, <<"+">>, <<"/">>, <<"*">>, <<"&">>, <<"^">>, <<"@">> >>

ClaimedNode ==
    <<"Store", "Equality", "Subtract", "Add", "Divide", "Multiply", "Negative",
      "Exponent", "Answer">>

\* The operators that can split the string: those that occur outside
\* parentheses, but the unary-negative marker only at position 0.
SplitOps(string) ==
    {k \in 1..Len(ClaimedOrder) :
        /\ HasOutside(string, ClaimedOrder[k])
        /\ ~(ClaimedOrder[k] = <<"&">> /\ Leftmost(string, ClaimedOrder[k]) # 0)}

FirstOp(string) == CHOOSE k \in SplitOps(string) : \A j \in SplitOps(string) : k <= j

LeftOf(string, k) == SubSeq(string, 1, Leftmost(string, ClaimedOrder[k]))

RightOf(string, k) ==
    SubSeq(string, Leftmost(string, ClaimedOrder[k]) + Len(ClaimedOrder[k]) + 1, Len(string))

\* The tree the claim describes for a string whose first split operator is the k-th.
RootIs(tree, string, k) ==
    LET l == parse(LeftOf(string, k), session)
        r == parse(RightOf(string, k), session)
    IN  /\ tree.t = ClaimedNode[k]
        /\ CASE ClaimedNode[k] = "Answer" ->
                    /\ UsizeFromStr(RightOf(string, k)).kind = "ok"
                    /\ tree = TAnswer(get_entry_inv_index(
                                         session, UsizeFromStr(RightOf(string, k)).val
                                     ).val.entry_uuid)
             [] ClaimedNode[k] = "Negative" -> r.kind = "ok" /\ tree.expression = r.val
             [] ClaimedNode[k] = "Store" ->
                    l.kind = "ok" /\ tree.id = RightOf(string, k) /\ tree.tokens = l.val
             [] OTHER ->
                    l.kind = "ok" /\ r.kind = "ok" /\ tree.left = l.val /\ tree.right = r.val

\* C1: whenever parse accepts a whitespace-free text, the root of the tree is
\* the node of the first operator of the order ->, =, -, +, /, *, unary
\* negative, ^, @ that occurs outside parentheses (a unary-negative marker
\* that is not at position 0 does not count), split at the leftmost such
\* occurrence, with the parses of the text left and right of it as children;
\* and a text without such an operator parses to a leaf or a Parenthesis.
C1_RootIsFirstOperator ==
    (via = "parse" /\ out.kind = "ok") =>
        IF SplitOps(text) = {}
        THEN out.val.t \in {"Number", "Variable", "Parenthesis"}
        ELSE RootIs(out.val, text, FirstOp(text))

\* Every character of the string is one byte long.
IsAscii(string) == \A i \in 1..Len(string) : len_utf8(string[i]) = 1

\* The part of C1 that holds: the accepted texts of one-byte characters.
C1_AsciiRootIsFirstOperator == IsAscii(text) => C1_RootIsFirstOperator

\* C1 happens: "2+x-2" is accepted and split at the "-", the operator that
\* comes first in the order although "+" comes first in the text.
C1_Witness ==
    /\ via = "parse"
    /\ out.kind = "ok"
    /\ text = <<"2", "+", "x", "-", "2">>
    /\ FirstOp(text) = 3
    /\ out.val.t = "Subtract"
    /\ out.val.left.t = "Add"

\* The binary operators of C2.
ChainOps == {<<"-">>, <<"+">>, <<"/">>, <<"*">>, <<"^">>}

\* What the atoms stand for in ParseSession: x is 1, and a parenthesised
\* store of 2 is 2.
AtomValue(a) == IF a \in {<<"2">>} \cup MultiByteAtoms THEN Int2Num(2) ELSE Int2Num(1)

ClaimedNodeOf(op) == ClaimedNode[CHOOSE k \in 1..Len(ClaimedOrder) : ClaimedOrder[k] = op]

\* What C2 says of the chain a op b op c.
ChainGroupsRight(a, b, c, op) ==
    (via # "none" /\ text = a \o op \o b \o op \o c) =>
        /\ out.kind = "ok"
        /\ out.val = TBinary(ClaimedNodeOf(op), parse(a, session).val,
                             TBinary(ClaimedNodeOf(op), parse(b, session).val,
                                     parse(c, session).val))
        /\ simplify(out.val, session).res =
               Ok(TNumber(Fold(ClaimedNodeOf(op), AtomValue(a),
                               Fold(ClaimedNodeOf(op), AtomValue(b), AtomValue(c),
                                    DEFAULT_DECIMAL_PLACES).val,
                               DEFAULT_DECIMAL_PLACES).val))

\* C2: for all atoms a, b, c, those with a letter of more than one byte
\* among the a, a chain "a op b op c" of one binary operator op of -, +, /,
\* *, ^ parses to op(a, op(b, c)), and simplify folds it to a op (b op c).
C2_ChainGroupsRight ==
    \A a \in ChainAtoms \cup MultiByteAtoms, b \in ChainAtoms, c \in ChainAtoms,
       op \in ChainOps :
        ChainGroupsRight(a, b, c, op)

\* The part of C2 that holds: the chains over atoms of one-byte characters.
C2_AsciiChainGroupsRight ==
    \A a \in ChainAtoms, b \in ChainAtoms, c \in ChainAtoms, op \in ChainOps :
        ChainGroupsRight(a, b, c, op)

\* C2 happens: "2-x-2" with x = 1 was parsed to 2-(x-2), which is 3 and not
\* the (2-x)-2 = -1 of a left-grouped chain.
C2_Witness ==
    /\ via = "parse_str"
    /\ text = <<"2", "-", "x", "-", "2">>
    /\ out.kind = "ok"
    /\ out.val.right.t = "Subtract"
    /\ simplify(out.val, session).res = Ok(TNumber(Int2Num(3)))

\* The parentheses of a string do not balance: the depth does not end at
\* zero, or goes negative on the way.
Unbalanced(string) ==
    \/ Depth(string, Len(string)) # 0
    \/ \E p \in 1..Len(string) : Depth(string, p) < 0

\* C7: parse_str rejects every input whose parentheses are unbalanced with
\* an error, wherever the imbalance is.
C7_UnbalancedIsRejected ==
    (via = "parse_str" /\ Unbalanced(StripComment(StripWhitespace(text)))) =>
        out.kind = "err"

\* A bare identifier: a letter followed by letters and digits.
IsIdentifier(id) ==
    /\ id # <<>>
    /\ is_alphabetic(id[1])
    /\ \A i \in 1..Len(id) : is_alphabetic(id[i]) \/ is_numeric(id[i])

\* C8: parse_str returns a Store node for "e->t" only when t is a bare
\* identifier (so none with an operator character in t, and none for
\* "2->foo<op>bar").  Stated for the inputs whose parentheses balance and
\* whose target is not empty: the inputs that C7 and C9 do not cover.
C8_StoreTargetIsIdentifier ==
    ( /\ via = "parse_str"
      /\ out.kind = "ok"
      /\ out.val.t = "Store"
      /\ out.val.id # <<>>
      /\ ~Unbalanced(StripComment(StripWhitespace(text))) ) =>
        /\ IsIdentifier(out.val.id)
        /\ ~VarNameCheckIsMatch(out.val.id)
        /\ text \notin BadVariableInputs

\* C9: when the split operator has nothing to its right, or nothing to its
\* left and is neither the unary-negative nor the answer marker, parse fails
\* with an error, for every operator of the table ("2->" and "->x" too).
C9_IncompleteIsRejected ==
    (via = "parse" /\ SplitOps(text) # {}) =>
        LET k == FirstOp(text)
        IN  ( \/ RightOf(text, k) = <<>>
              \/ (LeftOf(text, k) = <<>> /\ ClaimedNode[k] \notin {"Negative", "Answer"}) )
            => out.kind = "err"

(***************************************************************************)
(* A session of the calculator used through its calls: on one Session,     *)
(* texts are parsed (parse_str), evaluated (get_equality) and entered into *)
(* the history (HistoryEntry::new, add_entry) one after the other.  This   *)
(* is the path the working copy of entry_bar_on_submit takes; the handler  *)
(* itself, with the cache and the history file, is SpecTui below.          *)
(***************************************************************************)
\* Two history files of earlier sessions.  The second session referred to
\* the answer of the first; Session::init loads the files it can read and
\* skips the others, so the second may be loaded without the first.
HistoryFileA ==
    [session_start |-> 1,
     session_vartable |-> <<Variable(<<"y">>, TNumber(Int2Num(1)))>>,
     entries |-> <<HistoryEntry(100, TBinary("Equality", TNumber(Int2Num(2)),
                                             TNumber(Int2Num(2))))>>]

HistoryFileB ==
    [session_start |-> 2,
     session_vartable |-> <<Variable(<<"y">>, TNumber(Int2Num(1)))>>,
     entries |-> <<HistoryEntry(101, TBinary("Equality", TAnswer(100),
                                             TNumber(Int2Num(2))))>>]

\* The directories Session::init may find: each file readable or not.
\* read_dir gives the files in no particular order.
HistoryDirs ==
    {<<>>, <<HistoryFileA>>, <<HistoryFileB>>, <<HistoryFileA, HistoryFileB>>,
     <<HistoryFileB, HistoryFileA>>}

\* previous_bincodes.sort_by on session_start, a stable sort.
RECURSIVE SortBySessionStart(_)
SortBySessionStart(bincodes) ==
    IF Len(bincodes) <= 1 THEN bincodes
    ELSE LET sorted == SortBySessionStart(SubSeq(bincodes, 1, Len(bincodes) - 1))
             last == bincodes[Len(bincodes)]
             k == Cardinality({i \in 1..Len(sorted) :
                                 sorted[i].session_start <= last.session_start})
         IN  SubSeq(sorted, 1, k) \o <<last>> \o SubSeq(sorted, k + 1, Len(sorted))

\* The loop of Session::init over the sorted bincodes: each is merged into
\* the table and its entries are appended to previous_entries.
RECURSIVE LoadBincodes(_, _, _)
LoadBincodes(s, previous_bincodes, k) ==
    IF k > Len(previous_bincodes) THEN s
    ELSE LoadBincodes(
            [s EXCEPT !.vartable = VarTableMerge(@, previous_bincodes[k].session_vartable).vt,
                      !.previous_entries = @ \o previous_bincodes[k].entries],
            previous_bincodes, k + 1)

\* Session::init after Session::new, when it returns Ok: decimal_places is
\* taken from session.toml when the file sets it, and the bincodes read from
\* the data directory are sorted and loaded.
SessionInit(s, decimal_places, read_dir) ==
    LoadBincodes([s EXCEPT !.decimal_places =
                            IF decimal_places.kind = "some" THEN decimal_places.val ELSE @],
                 SortBySessionStart(read_dir), 1)

\* Session::new
SessionNew ==
    [vartable |-> VarTableNew, entries |-> <<>>, previous_entries |-> <<>>,
     decimal_places |-> DEFAULT_DECIMAL_PLACES]

\* main: Session::new().unwrap() and session.init().unwrap(), then Tui::new.
\* session.toml sets decimal_places or leaves it out.  A file or directory
\* that cannot be read or created, a malformed session.toml or theme file
\* end the program in a panic before the first submit.
SessionStarts ==
    {Ok(SessionInit(SessionNew, toml, dir)) : toml \in {None, Some(2)}, dir \in HistoryDirs}
        \cup {Panic("unwrap on Err")}

\* The texts a user submits.
SessionInputs ==
    {<<"2"," ","-",">"," ","x">>,
     <<"3","-",">","x">>,
     <<"x","-",">","a">>,
     <<"x">>,
     <<"x","*","y">>,
     <<"(","3","-",">","x",")","+","x">>,
     <<"@","0">>,
     <<"@","1">>,
     <<"(","2","-",">","x",")","+","2","^","(","1","/","0",")">>,
     <<"2","+">>,
     <<"2","=","2","-",">","b">>,
     <<"(","b","+","1",")","*","2","-",">","x">>,
     <<"-","b","-",">","a">>,
     <<"2","-",">","U+03C0">>,
     <<"U+03C0">>}

\* The Store nodes an evaluation of tree executes, in the order it executes
\* them, each with the value it binds.
RECURSIVE StoresOf(_, _)
StoresOf(tree, s) ==
    IF tree.t \in BinaryVariants THEN StoresOf(tree.left, s) \o StoresOf(tree.right, s)
    ELSE IF tree.t \in {"Number", "Boolean", "Variable"} THEN <<>>
    ELSE IF tree.t = "Answer" /\ FindEntry(get_entries(s), tree.uuid).kind # "some" THEN <<>>
    ELSE StoresOf(Operand(tree, s), s)
         \o (IF tree.t = "Store"
             THEN <<[id |-> tree.id, value |-> simplify(tree.tokens, s).res.val]>>
             ELSE <<>>)

RECURSIVE Record(_, _, _)
Record(last, stores, k) ==
    IF k > Len(stores) THEN last
    ELSE Record([i \in DOMAIN last \cup {stores[k].id} |->
                    IF i = stores[k].id THEN stores[k].value ELSE last[i]],
                stores, k + 1)

Init ==
    /\ \E start \in SessionStarts :
           /\ session = IF start.kind = "ok" THEN start.val ELSE SessionNew
           /\ pc = IF start.kind = "ok" THEN "idle" ELSE "crashed"
    /\ text = <<>>
    /\ via = "none"
    /\ out = None
    /\ vtAtParse = <<>>
    /\ result = None
    /\ before = session
    /\ lastStore = <<>>
    /\ entryTable = <<>>
    /\ table = VarTableNew
    /\ tableRes = None
    /\ tableBefore = VarTableNew
    /\ tableArg = None
    /\ tokens = None
    /\ numSelf = None
    /\ numArg = None
    /\ numPrec = 0
    /\ xIter = None
    /\ lastMove = None
    /\ historyItems = 0

\* parser::parse_str(text, &mut session)
ParseStr(string) ==
    /\ pc = "idle"
    /\ Len(session.entries) < MaxSubmits
    /\ text' = string
    /\ via' = "parse_str"
    /\ out' = parse_str(string, session)
    /\ vtAtParse' = session.vartable
    /\ result' = None
    /\ pc' = IF out'.kind = "ok" THEN "parsed"
             ELSE IF out'.kind = "panic" THEN "crashed" ELSE "idle"
    /\ UNCHANGED <<session, before, lastStore, entryTable, table, tableRes, tableBefore, tableArg, tokens, numSelf, numArg, numPrec, xIter, lastMove, historyItems>>

\* op_engine::get_equality(&tokens, &mut session)
Evaluate ==
    /\ pc = "parsed"
    /\ \E r \in {get_equality(out.val, session)} :
           /\ result' = r.res
           /\ session' = r.s
           /\ pc' = IF r.res.kind = "ok" THEN "evaluated"
                    ELSE IF r.res.kind = "panic" THEN "crashed" ELSE "idle"
           /\ lastStore' = IF r.res.kind = "ok"
                           THEN Record(lastStore, StoresOf(out.val, session), 1)
                           ELSE lastStore
    /\ before' = session
    /\ UNCHANGED <<text, via, out, vtAtParse, entryTable, table, tableRes, tableBefore, tableArg, tokens, numSelf, numArg, numPrec, xIter, lastMove, historyItems>>

\* The Answer nodes Token::to_string reaches: a Variable is printed by its
\* id, so the tokens bound to it are not visited.
RECURSIVE RenderedAnswers(_)
RenderedAnswers(tree) ==
    IF tree.t \in BinaryVariants
    THEN RenderedAnswers(tree.left) \cup RenderedAnswers(tree.right)
    ELSE IF tree.t = "Answer" THEN {tree.uuid}
    ELSE IF tree.t \in {"Parenthesis", "Negative"} THEN RenderedAnswers(tree.expression)
    ELSE IF tree.t = "Store" THEN RenderedAnswers(tree.tokens)
    ELSE {}

\* HistoryEntry::new(&result, &cache.session): the rendition is made with
\* Token::to_string, whose Answer arm calls get_inv_index_from_uuid; the
\* outcomes are the entry, or the panic of that call in a build that checks
\* the subtraction.
HistoryEntryNew(uuid, expression, s) ==
    {Ok(HistoryEntry(uuid, expression))}
        \cup {o \in UNION {get_inv_index_from_uuid(s, u) : u \in RenderedAnswers(expression)} :
                o.kind = "panic"}

\* HistoryEntry::new(&result, ..) and session.add_entry(&entry); the new
\* entry's uuid is one that no other entry has.
AddEntry ==
    /\ pc = "evaluated"
    /\ \E entry \in HistoryEntryNew(Len(session.entries) + 1, result.val, session) :
           IF entry.kind = "panic"
           THEN /\ pc' = "crashed"
                /\ UNCHANGED <<session, entryTable>>
           ELSE /\ session' = add_entry(session, entry.val)
                /\ entryTable' = Append(entryTable, vtAtParse)
                /\ pc' = "idle"
    /\ UNCHANGED <<text, via, out, vtAtParse, result, before, lastStore, table, tableRes, tableBefore, tableArg, tokens, numSelf, numArg, numPrec, xIter, lastMove, historyItems>>

Next ==
    \/ \E string \in SessionInputs : ParseStr(string)
    \/ Evaluate
    \/ AddEntry

Spec == Init /\ [][Next]_vars

\* The positions of the table that bind id.
Bindings(vt, id) == {i \in 1..Len(vt) : vt[i].id = id}

\* The value that the table binds to id.
BoundValue(vt, id) == vt[CHOOSE i \in Bindings(vt, id) : TRUE].tokens

\* C3: while the session runs, for every identifier id that a successful
\* evaluation has stored to, the symbol table holds exactly one binding for
\* id, and parsing and simplifying the text id yields the value of the most
\* recent such Store.
C3_LookupYieldsLastStore ==
    pc # "crashed" =>
        \A id \in DOMAIN lastStore :
            IsIdentifier(id) =>
                /\ Cardinality(Bindings(session.vartable, id)) = 1
                /\ parse_str(id, session).kind = "ok"
                /\ simplify(parse_str(id, session).val, session).res = Ok(lastStore[id])

\* The part of C3 that holds: the identifiers of one-byte characters.
C3_AsciiLookupYieldsLastStore ==
    pc # "crashed" =>
        \A id \in DOMAIN lastStore :
            (IsIdentifier(id) /\ IsAscii(id)) =>
                /\ Cardinality(Bindings(session.vartable, id)) = 1
                /\ parse_str(id, session).kind = "ok"
                /\ simplify(parse_str(id, session).val, session).res = Ok(lastStore[id])

\* C3 happens: "2 -> x" and "3->x" were entered, and now "x" has been
\* evaluated to 3 with one binding for x in the table.
C3_Witness ==
    /\ pc = "evaluated"
    /\ text = <<"x">>
    /\ Len(session.entries) = 2
    /\ session.entries[1].expression.right = TNumber(Int2Num(2))
    /\ session.entries[2].expression.left = TStore(<<"x">>, TNumber(Int2Num(3)))
    /\ lastStore[<<"x">>] = TNumber(Int2Num(3))
    /\ result = Ok(TBinary("Equality", out.val, TNumber(Int2Num(3))))
    /\ Cardinality(Bindings(session.vartable, <<"x">>)) = 1

\* The Variable nodes of a tree.
RECURSIVE VariableNodes(_)
VariableNodes(tree) ==
    IF tree.t \in BinaryVariants THEN VariableNodes(tree.left) \cup VariableNodes(tree.right)
    ELSE IF tree.t \in {"Parenthesis", "Negative"} THEN VariableNodes(tree.expression)
    ELSE IF tree.t = "Store" THEN VariableNodes(tree.tokens)
    ELSE IF tree.t = "Variable" THEN {tree}
    ELSE {}

\* C4: every Variable node of the tree last parsed, and of every expression
\* entered into the history, simplifies to the value its identifier had in
\* the symbol table when the text was parsed, whatever has been stored since.
C4_VariableYieldsSnapshot ==
    /\ (via = "parse_str" /\ out.kind = "ok") =>
           \A v \in VariableNodes(out.val) :
               simplify(v, session).res = Ok(BoundValue(vtAtParse, v.variable.id))
    /\ \A i \in 1..Len(session.entries) :
           \A v \in VariableNodes(session.entries[i].expression) :
               simplify(v, session).res = Ok(BoundValue(entryTable[i], v.variable.id))

\* C4 happens: "(3->x)+x" was parsed while x was 2; its evaluation stored 3
\* to x and still took 2 for the Variable node, giving 5.
C4_Witness ==
    /\ pc = "evaluated"
    /\ text = <<"(", "3", "-", ">", "x", ")", "+", "x">>
    /\ BoundValue(vtAtParse, <<"x">>) = TNumber(Int2Num(2))
    /\ BoundValue(session.vartable, <<"x">>) = TNumber(Int2Num(3))
    /\ result.val.right = TNumber(Int2Num(5))

\* C5: when get_equality has not returned a value, the symbol table and the
\* answer history are as they were before the call.
C5_FailedEvaluationChangesNothing ==
    result.kind \in {"err", "panic"} =>
        /\ session.vartable = before.vartable
        /\ session.entries = before.entries
        /\ session.previous_entries = before.previous_entries

\* The uuids of the Answer nodes that simplify(tree, s) comes to evaluate.
RECURSIVE AnswersEvaluated(_, _)
AnswersEvaluated(tree, s) ==
    IF tree.t \in BinaryVariants
    THEN AnswersEvaluated(tree.left, s) \cup AnswersEvaluated(tree.right, s)
    ELSE IF tree.t \in {"Number", "Boolean", "Variable"} THEN {}
    ELSE IF tree.t = "Answer" /\ FindEntry(get_entries(s), tree.uuid).kind # "some"
    THEN {tree.uuid}
    ELSE AnswersEvaluated(Operand(tree, s), s)
         \cup (IF tree.t = "Answer" THEN {tree.uuid} ELSE {})

\* C6: an evaluation that comes to an Answer node whose uuid matches no
\* entry of the current or previous sessions returns an error to its caller;
\* the evaluation of an Answer node that matches an entry returns what
\* simplify gives for the entry's expression without its equality.
C6_UnresolvableAnswerIsError ==
    /\ ( /\ result.kind # "none"
         /\ \E u \in AnswersEvaluated(out.val, before) :
                FindEntry(get_entries(before), u).kind = "none" ) =>
           result.kind = "err"
    /\ ( /\ result.kind # "none"
         /\ out.val.t = "Answer"
         /\ FindEntry(get_entries(before), out.val.uuid).kind = "some" ) =>
           result = EqualityOf(out.val,
                        simplify(without_equality(
                                     FindEntry(get_entries(before), out.val.uuid).val),
                                 before)).res

(***************************************************************************)
(* A VarTable driven through its public methods alone, from VarTable::new, *)
(* as test_vartable_add_store_get_remove does.                             *)
(***************************************************************************)
\* Stores that build a table handed to merge.
MaxOther == 2

TableIds == {<<"a">>, <<"a", "b">>, <<"b">>, <<"x">>}

TableValues == {TNumber(Int2Num(1)), TNumber(Int2Num(2))}

TableVariables == {Variable(id, v) : id \in TableIds, v \in TableValues}

\* The tables that up to k calls of store build from VarTable::new.
RECURSIVE StoredTables(_)
StoredTables(k) ==
    IF k = 0 THEN {VarTableNew}
    ELSE StoredTables(k - 1)
         \cup {VarTableStore(vt, var).vt : vt \in StoredTables(k - 1), var \in TableVariables}

\* The tables handed to merge.
OtherTables == StoredTables(MaxOther)

InitVarTable ==
    /\ table = VarTableNew
    /\ tableRes = None
    /\ tableBefore = VarTableNew
    /\ tableArg = None
    /\ tokens = None
    /\ numSelf = None
    /\ numArg = None
    /\ numPrec = 0
    /\ xIter = None
    /\ lastMove = None
    /\ historyItems = 0
    /\ via = "new"
    /\ text = <<>>
    /\ out = None
    /\ session = SessionNew
    /\ vtAtParse = <<>>
    /\ result = None
    /\ before = SessionNew
    /\ lastStore = <<>>
    /\ entryTable = <<>>
    /\ pc = "idle"

TableUnchanged ==
    UNCHANGED <<text, out, session, vtAtParse, result, before, lastStore, entryTable, pc,
                tokens, numSelf, numArg, numPrec, xIter, lastMove, historyItems>>

\* table.add(var)
TableAdd(var) ==
    /\ via' = "add"
    /\ \E r \in {VarTableAdd(table, var)} :
           /\ table' = r.vt
           /\ tableRes' = r.res
    /\ tableBefore' = table
    /\ tableArg' = var
    /\ TableUnchanged

\* table.store(var)
TableStore(var) ==
    /\ via' = "store"
    /\ \E r \in {VarTableStore(table, var)} :
           /\ table' = r.vt
           /\ tableRes' = r.res
    /\ tableBefore' = table
    /\ tableArg' = var
    /\ TableUnchanged

\* table.remove(id)
TableRemove(id) ==
    /\ via' = "remove"
    /\ \E r \in {VarTableRemove(table, id)} :
           /\ table' = r.vt
           /\ tableRes' = r.res
    /\ tableBefore' = table
    /\ tableArg' = id
    /\ TableUnchanged

\* table.merge(&other)
TableMerge(other) ==
    /\ via' = "merge"
    /\ \E r \in {VarTableMerge(table, other)} :
           /\ table' = r.vt
           /\ tableRes' = r.res
    /\ tableBefore' = table
    /\ tableArg' = other
    /\ TableUnchanged

NextVarTable ==
    \/ \E var \in TableVariables : TableAdd(var)
    \/ \E var \in TableVariables : TableStore(var)
    \/ \E id \in TableIds : TableRemove(id)
    \/ \E other \in OtherTables : TableMerge(other)

SpecVarTable == InitVarTable /\ [][NextVarTable]_vars

\* a comes before b in the order of strings: a is a proper prefix of b, or
\* the first character in which they differ is the smaller one in a.
StringLess(a, b) ==
    \E k \in 0..Len(a) :
        /\ k <= Len(b)
        /\ \A j \in 1..k : a[j] = b[j]
        /\ \/ (k = Len(a) /\ k < Len(b))
           \/ (k < Len(a) /\ k < Len(b) /\ CharCode(a[k + 1]) < CharCode(b[k + 1]))

\* C10: whatever add, store, remove and merge calls have been made on a
\* VarTable that started empty, each entry's identifier is strictly smaller
\* than the next entry's, so no identifier is in the table twice.
C10_TableStrictlyAscending ==
    /\ \A i \in 1..(Len(table) - 1) : StringLess(table[i].id, table[i + 1].id)
    /\ \A i \in 1..Len(table) : \A j \in 1..Len(table) :
           table[i].id = table[j].id => i = j

\* C10 happens: a merge has just left all four identifiers in the table.
C10_Witness ==
    /\ via = "merge"
    /\ tableRes.kind = "ok"
    /\ Len(table) = 4
    /\ table[2].id = <<"a", "b">>

\* C11: in every state of a VarTable, store(id, v) followed by get(id) gives
\* a binding whose value is v, and a further store(id, v2) replaces that
\* binding: the table is as long after it as before it, and get(id) then
\* gives v2.
C11_StoreThenGet ==
    \A var \in TableVariables : \A v2 \in TableValues :
        LET t1 == VarTableStore(table, var).vt
            t2 == VarTableStore(t1, Variable(var.id, v2)).vt
        IN  /\ VarTableStore(table, var).res.kind = "ok"
            /\ VarTableGet(t1, var.id).kind = "ok"
            /\ VarTableGet(t1, var.id).val.tokens = var.tokens
            /\ VarTableStore(t1, Variable(var.id, v2)).res.kind = "ok"
            /\ Len(t2) = Len(t1)
            /\ VarTableGet(t2, var.id).kind = "ok"
            /\ VarTableGet(t2, var.id).val.tokens = v2

\* C11 happens: a store has just replaced the binding of an identifier that
\* was bound to another value, in a table of several entries.
C11_Witness ==
    /\ via = "store"
    /\ tableRes.kind = "ok"
    /\ Len(tableBefore) >= 2
    /\ VarTableGet(tableBefore, tableArg.id).kind = "ok"
    /\ VarTableGet(tableBefore, tableArg.id).val.tokens # tableArg.tokens
    /\ Len(table) = Len(tableBefore)
    /\ VarTableGet(table, tableArg.id) = Ok(tableArg)
    /\ table[1].id # tableArg.id

\* The identifier is bound in the table.
Bound(vt, id) == \E i \in 1..Len(vt) : vt[i].id = id

\* The entries of the table other than the one of the identifier, in order.
Without(vt, id) ==
    LET Other(e) == e.id # id
    IN  SelectSeq(vt, Other)

\* C12: add with an identifier already in the table, and remove or get with
\* an identifier not in the table, give an error and leave the table as it
\* was; add with a new identifier and remove with a present identifier
\* succeed and change that one entry only.
C12_AddRemoveGetErrors ==
    /\ \A var \in TableVariables :
           IF Bound(table, var.id)
           THEN /\ VarTableAdd(table, var).res.kind = "err"
                /\ VarTableAdd(table, var).vt = table
           ELSE /\ VarTableAdd(table, var).res.kind = "ok"
                /\ VarTableGet(VarTableAdd(table, var).vt, var.id) = Ok(var)
                /\ Len(VarTableAdd(table, var).vt) = Len(table) + 1
                /\ Without(VarTableAdd(table, var).vt, var.id) = table
    /\ \A id \in TableIds :
           IF Bound(table, id)
           THEN /\ VarTableRemove(table, id).res.kind = "ok"
                /\ Len(VarTableRemove(table, id).vt) = Len(table) - 1
                /\ VarTableRemove(table, id).vt = Without(table, id)
                /\ VarTableGet(table, id).kind = "ok"
           ELSE /\ VarTableRemove(table, id).res.kind = "err"
                /\ VarTableRemove(table, id).vt = table
                /\ VarTableGet(table, id).kind = "err"

\* C12 happens: an add of an identifier that was bound to another value has
\* just failed on a table of several entries, and the table is as it was.
C12_Witness ==
    /\ via = "add"
    /\ tableRes.kind = "err"
    /\ Len(tableBefore) >= 2
    /\ Bound(tableBefore, tableArg.id)
    /\ VarTableGet(tableBefore, tableArg.id).val.tokens # tableArg.tokens
    /\ table = tableBefore

\* m, what merge gave for self and other, is a success whose table binds the
\* identifiers of both, those of other to other's values and the rest to
\* the values of self.
MergedAs(self, other, m) ==
    /\ m.res.kind = "ok"
    /\ \A i \in 1..Len(m.vt) : Bound(self, m.vt[i].id) \/ Bound(other, m.vt[i].id)
    /\ \A id \in TableIds :
           IF Bound(other, id)
           THEN VarTableGet(m.vt, id) = VarTableGet(other, id)
           ELSE VarTableGet(m.vt, id) = VarTableGet(self, id)

\* C13: after self.merge(other) the identifiers of self are those of both
\* tables; every identifier of other is bound to other's value, and every
\* identifier of self alone keeps its value. merge is called on every
\* reachable table with every table of OtherTables; other is borrowed
\* immutably and only read, and tableArg holds it after the call.
C13_MergeOtherWins ==
    via = "merge" =>
        /\ tableArg \in OtherTables
        /\ MergedAs(tableBefore, tableArg, [res |-> tableRes, vt |-> table])

\* C13 happens: a merge has just joined two tables that bind one identifier
\* to different values and that each bind an identifier the other does not.
C13_Witness ==
    /\ via = "merge"
    /\ tableRes.kind = "ok"
    /\ \E id \in TableIds :
           /\ Bound(tableBefore, id)
           /\ Bound(tableArg, id)
           /\ VarTableGet(tableBefore, id) # VarTableGet(tableArg, id)
           /\ VarTableGet(table, id) = VarTableGet(tableArg, id)
    /\ \E id \in TableIds :
           /\ Bound(tableBefore, id)
           /\ ~Bound(tableArg, id)
           /\ VarTableGet(table, id) = VarTableGet(tableBefore, id)
    /\ \E id \in TableIds :
           /\ ~Bound(tableBefore, id)
           /\ Bound(tableArg, id)
           /\ VarTableGet(table, id) = VarTableGet(tableArg, id)
    /\ Len(table) = 3

\* The entries of the session, those of earlier sessions first.
EntriesOf(s) == {s.previous_entries[i] : i \in 1..Len(s.previous_entries)}
                \cup {s.entries[i] : i \in 1..Len(s.entries)}

\* C14: for every history entry e of the session, of the current list or of
\* the list of earlier sessions, get_inv_index_from_uuid(e.uuid) gives an
\* index without overflow, and get_entry_inv_index of that index gives e.
C14_InvIndexRoundTrip ==
    \A e \in EntriesOf(session) :
        \A i \in get_inv_index_from_uuid(session, e.entry_uuid) :
            /\ i.kind = "some"
            /\ get_entry_inv_index(session, i.val) = Some(e)

\* The same for the entries of the current list only, which holds.
C14_CurrentEntriesRoundTrip ==
    \A k \in 1..Len(session.entries) :
        \A i \in get_inv_index_from_uuid(session, session.entries[k].entry_uuid) :
            /\ i.kind = "some"
            /\ get_entry_inv_index(session, i.val) = Some(session.entries[k])

\* The decimal digit of k, 0 <= k <= 9.
DigitChar(k) == CharOrder[CharCode("0") + k]

\* What the claim says parsing "@k" gives in session s.
ClaimedAnswer(s, k) ==
    IF k < Len(get_entries(s))
    THEN Ok(TAnswer(get_entries(s)[Len(get_entries(s)) - k].entry_uuid))
    ELSE Err("Invalid answer")

\* C15: parsing "@k" succeeds exactly when k is smaller than the number of
\* history entries, earlier sessions and the current one together, and then
\* gives an Answer node with the identifier of the entry k places before the
\* most recent one of previous ++ current; for any other k it is an error.
C15_AnswerIndex ==
    \A k \in 0..9 :
        /\ parse(<<"@", DigitChar(k)>>, session).kind = ClaimedAnswer(session, k).kind
        /\ k < Len(get_entries(session)) =>
               /\ parse(<<"@", DigitChar(k)>>, session) = ClaimedAnswer(session, k)
               /\ parse(<<"@", "0", DigitChar(k)>>, session) = ClaimedAnswer(session, k)
               /\ parse_str(<<"@", DigitChar(k)>>, session) = ClaimedAnswer(session, k)
        /\ parse(<<"@", "1", DigitChar(k)>>, session).kind = "err"

\* C15 happens: with entries of an earlier session and of the current one,
\* "@1" has been parsed to the last entry of the earlier session, and "@3"
\* is out of range.
C15_Witness ==
    /\ via = "parse_str"
    /\ text = <<"@", "1">>
    /\ Len(session.previous_entries) = 2
    /\ Len(session.entries) = 1
    /\ out = Ok(TAnswer(session.previous_entries[2].entry_uuid))
    /\ parse(<<"@", "3">>, session).kind = "err"

(***************************************************************************)
(* The evaluator on Token trees: a caller builds a tree node by node and   *)
(* hands it to simplify or to get_equality.                                *)
(***************************************************************************)
\* The operator nodes of a tree.
MaxOps == 2

\* The session of the evaluations: x is bound to a number and b to a tree
\* that is no number, and there is one history entry.
EvalSession ==
    [vartable |-> <<Variable(<<"b">>, TBinary("Add", TBoolean(TRUE), TNumber(Int2Num(2)))),
                    Variable(<<"x">>, TNumber(Int2Num(1)))>>,
     entries |-> <<HistoryEntry(1, TBinary("Equality", TNumber(Int2Num(2)), TNumber(Int2Num(2))))>>,
     previous_entries |-> <<>>,
     decimal_places |-> 1]

\* The leaves a tree starts from; a Variable node holds the binding the
\* parser found.
Leaves ==
    {TNumber(Int2Num(0)), TNumber(Int2Num(2)), TBoolean(TRUE),
     TVariable(EvalSession.vartable[1]), TVariable(EvalSession.vartable[2]), TAnswer(1)}

\* The leaves put beside a tree by a two-operand node.
SideLeaves == {TNumber(Int2Num(2)), TBoolean(TRUE)}

\* The one-operand nodes around e.
UnaryNodes(e) == {TParenthesis(e), TNegative(e), TStore(<<"x">>, e)}

RECURSIVE OpCount(_)
OpCount(token) ==
    IF token.t \in BinaryVariants THEN 1 + OpCount(token.left) + OpCount(token.right)
    ELSE IF token.t \in {"Parenthesis", "Negative"} THEN 1 + OpCount(token.expression)
    ELSE IF token.t = "Store" THEN 1 + OpCount(token.tokens)
    ELSE 0

InitSimplify ==
    /\ tokens \in Leaves
    /\ session = EvalSession
    /\ before = EvalSession
    /\ result = None
    /\ via = "new"
    /\ pc = "idle"
    /\ text = <<>>
    /\ out = None
    /\ vtAtParse = <<>>
    /\ lastStore = <<>>
    /\ entryTable = <<>>
    /\ table = VarTableNew
    /\ tableRes = None
    /\ tableBefore = VarTableNew
    /\ tableArg = None
    /\ numSelf = None
    /\ numArg = None
    /\ numPrec = 0
    /\ xIter = None
    /\ lastMove = None
    /\ historyItems = 0

SimplifyUnchanged ==
    UNCHANGED <<text, out, vtAtParse, lastStore, entryTable, table, tableRes,
                tableBefore, tableArg, numSelf, numArg, numPrec, xIter, lastMove, historyItems>>

\* Token::Parenthesis(..), Token::Negative(..) or Token::Store(..) around the tree
WrapUnary ==
    /\ pc = "idle"
    /\ OpCount(tokens) < MaxOps
    /\ tokens' \in UnaryNodes(tokens)
    /\ UNCHANGED <<session, before, result, via, pc>>
    /\ SimplifyUnchanged

\* A two-operand node with the tree on one side and a leaf on the other. The
\* integers of the model are 32 bits wide where the program's are unbounded,
\* and the Newton iteration of a fractional exponent squares denominators of
\* 10^(decimal_places + 3): an exponent is a leaf or a tree of one operator,
\* which keeps every number of an evaluation in range.
WrapBinary ==
    /\ pc = "idle"
    /\ OpCount(tokens) < MaxOps
    /\ \E variant \in BinaryVariants : \E leaf \in SideLeaves :
           \/ tokens' = TBinary(variant, tokens, leaf)
           \/ /\ variant = "Exponent" => OpCount(tokens) <= 1
              /\ tokens' = TBinary(variant, leaf, tokens)
    /\ UNCHANGED <<session, before, result, via, pc>>
    /\ SimplifyUnchanged

\* op_engine::simplify(&tokens, &mut session)
Simplify ==
    /\ pc = "idle"
    /\ via' = "simplify"
    /\ before' = session
    /\ \E r \in {simplify(tokens, session)} :
           /\ result' = r.res
           /\ session' = r.s
    /\ pc' = "evaluated"
    /\ UNCHANGED tokens
    /\ SimplifyUnchanged

\* op_engine::get_equality(&tokens, &mut session)
GetEquality ==
    /\ pc = "idle"
    /\ via' = "get_equality"
    /\ before' = session
    /\ \E r \in {get_equality(tokens, session)} :
           /\ result' = r.res
           /\ session' = r.s
    /\ pc' = "evaluated"
    /\ UNCHANGED tokens
    /\ SimplifyUnchanged

NextSimplify == WrapUnary \/ WrapBinary \/ Simplify \/ GetEquality

SpecSimplify == InitSimplify /\ [][NextSimplify]_vars

\* simplify has just returned for a two-operand arithmetic node whose two
\* children simplify without failure, the right one after the left one.
ArithmeticEvaluated ==
    /\ via = "simplify"
    /\ pc = "evaluated"
    /\ tokens.t \in ArithmeticVariants
    /\ simplify(tokens.left, before).res.kind = "ok"
    /\ simplify(tokens.right, simplify(tokens.left, before).s).res.kind = "ok"

\* The simplified children of the node.
LeftChild == simplify(tokens.left, before).res.val

RightChild == simplify(tokens.right, simplify(tokens.left, before).s).res.val

\* C16: for a two-operand arithmetic node (Add, Subtract, Multiply, Divide,
\* Exponent) simplify returns a Number leaf when both simplified children
\* are Number leaves, and otherwise a node of the same variant that holds the
\* two simplified children; it neither fails nor panics.
C16_FoldOrFallBack ==
    ArithmeticEvaluated =>
        /\ result.kind = "ok"
        /\ IF LeftChild.t = "Number" /\ RightChild.t = "Number"
           THEN result.val.t = "Number"
           ELSE result.val = TBinary(tokens.t, LeftChild, RightChild)

\* The part of C16 about children that are no Number leaves, which holds:
\* the node is returned unfolded, with the simplified children.
C16_MismatchFallsBack ==
    (ArithmeticEvaluated /\ ~(LeftChild.t = "Number" /\ RightChild.t = "Number")) =>
        result = Ok(TBinary(tokens.t, LeftChild, RightChild))

\* The part of C16 about Number children for the four variants other than
\* Exponent, which holds.
C16_FoldsOutsideExponent ==
    (ArithmeticEvaluated /\ tokens.t # "Exponent"
        /\ LeftChild.t = "Number" /\ RightChild.t = "Number") =>
        (result.kind = "ok" /\ result.val.t = "Number")

\* simplify has just returned for an Equality node whose two sides simplify
\* without failure, the right one after the left one.
EqualityEvaluated ==
    /\ via = "simplify"
    /\ pc = "evaluated"
    /\ tokens.t = "Equality"
    /\ simplify(tokens.left, before).res.kind = "ok"
    /\ simplify(tokens.right, simplify(tokens.left, before).s).res.kind = "ok"

\* C17: simplify of an Equality node gives a Boolean leaf that is true
\* exactly when the simplified left side and the simplified right side are
\* equal as trees, and get_equality(t) gives Equality(t, simplify(t)), whose
\* left child is t as it was given.
C17_EqualityIsStructural ==
    /\ EqualityEvaluated =>
           /\ result.kind = "ok"
           /\ result.val.t = "Boolean"
           /\ result.val.boolean = (LeftChild = RightChild)
    /\ (via = "get_equality" /\ pc = "evaluated") =>
           IF simplify(tokens, before).res.kind = "ok"
           THEN /\ result.kind = "ok"
                /\ result.val.t = "Equality"
                /\ result.val.left = tokens
                /\ result.val.right = simplify(tokens, before).res.val
                /\ session = simplify(tokens, before).s
           ELSE result.kind # "ok"

\* C17 happens: an Equality whose sides differ as given, one of them with an
\* operator, has simplified to true.
C17_Witness ==
    /\ EqualityEvaluated
    /\ OpCount(tokens) = 2
    /\ tokens.left # tokens.right
    /\ result = Ok(TBoolean(TRUE))

\* and get_equality has given Equality(t, simplify(t)) for a t that
\* simplify changes.
C17_WitnessEquality ==
    /\ via = "get_equality"
    /\ pc = "evaluated"
    /\ result.kind = "ok"
    /\ OpCount(tokens) = 2
    /\ result.val.left = tokens
    /\ result.val.right # tokens

\* C18: for every tree x and every session, simplify(Parenthesis(x)) gives
\* the result of simplify(x) and leaves the symbol table that simplify(x)
\* leaves: for the tree of the state in the session of the state, and for
\* the Parenthesis node that simplify has just been called on.
C18_ParenthesisTransparent ==
    /\ simplify(TParenthesis(tokens), session).res = simplify(tokens, session).res
    /\ simplify(TParenthesis(tokens), session).s.vartable
           = simplify(tokens, session).s.vartable
    /\ (via = "simplify" /\ pc = "evaluated" /\ tokens.t = "Parenthesis") =>
           /\ result = simplify(tokens.expression, before).res
           /\ session.vartable = simplify(tokens.expression, before).s.vartable

\* C18 happens: simplify of a Parenthesis around a Store has returned the
\* stored value and has changed the symbol table.
C18_Witness ==
    /\ via = "simplify"
    /\ pc = "evaluated"
    /\ tokens.t = "Parenthesis"
    /\ tokens.expression.t = "Store"
    /\ result.kind = "ok"
    /\ result.val.t # "Number"
    /\ session.vartable # before.vartable

(***************************************************************************)
(* Number::exponent and Number::root on their own.                         *)
(***************************************************************************)
\* Numerators and denominators of the bases of an integer power.
MaxBase == 3

\* Integer exponents run from -MaxExp to MaxExp.
MaxExp == 3

\* Precisions of an integer power run from 0 to MaxPrec.
MaxPrec == 1

Bases == {Rat(n, d) : n \in (-MaxBase)..MaxBase, d \in 1..MaxBase}

IntegerExponents == {Int2Num(n) : n \in (-MaxExp)..MaxExp}

\* exponent calls with an integer exponent: <<self, exp, prec>>.
IntegerPowers == Bases \X IntegerExponents \X (0..MaxPrec)

\* Operands of the calls that may reach the Newton iteration: the special
\* values and a few small fractions. The integers of the model are 32 bits
\* wide where the program's are unbounded, and the iteration multiplies
\* numerators and denominators of up to 10^(prec + 3) digits; with these
\* operands and prec = 0 every product stays in range.
SpecialOperands ==
    {Infinity(1), Infinity(-1), NaN, Int2Num(0), Int2Num(1), Int2Num(2), Int2Num(-2),
     Rat(1, 2), Rat(-1, 2)}

SpecialCalls == SpecialOperands \X SpecialOperands \X {0}

InitNumber ==
    /\ \E call \in IntegerPowers \cup SpecialCalls :
           /\ numSelf = call[1]
           /\ numArg = call[2]
           /\ numPrec = call[3]
    /\ xIter = None
    /\ lastMove = None
    /\ historyItems = 0
    /\ result = None
    /\ via = "new"
    /\ pc = "idle"
    /\ tokens = None
    /\ session = SessionNew
    /\ before = SessionNew
    /\ text = <<>>
    /\ out = None
    /\ vtAtParse = <<>>
    /\ lastStore = <<>>
    /\ entryTable = <<>>
    /\ table = VarTableNew
    /\ tableRes = None
    /\ tableBefore = VarTableNew
    /\ tableArg = None

NumberUnchanged ==
    UNCHANGED <<text, out, session, vtAtParse, before, lastStore, entryTable, table,
                tableRes, tableBefore, tableArg, tokens, numSelf, numArg, numPrec, xIter, lastMove, historyItems>>

\* self.exponent(&exp, prec)
NumberExponent ==
    /\ pc = "idle"
    /\ via' = "exponent"
    /\ result' = exponent(numSelf, numArg, numPrec)
    /\ pc' = "evaluated"
    /\ NumberUnchanged

\* self.root(&root, prec)
NumberRoot ==
    /\ pc = "idle"
    /\ <<numSelf, numArg, numPrec>> \in SpecialCalls
    /\ via' = "root"
    /\ result' = root(numSelf, numArg, numPrec)
    /\ pc' = "evaluated"
    /\ NumberUnchanged

NextNumber == NumberExponent \/ NumberRoot

SpecNumber == InitNumber /\ [][NextNumber]_vars

\* a multiplied n times into 1: the n-th power of a, n >= 0.
RECURSIVE Power(_, _)
Power(a, n) == IF n = 0 THEN Int2Num(1) ELSE multiply(a, Power(a, n - 1))

\* The exact power a^n of the claim for an integer n: a^0 = 1 and
\* a^(-n) = 1/(a^n).
ExactPower(a, n) == IF n >= 0 THEN Power(a, n) ELSE divide(Int2Num(1), Power(a, -n))

\* exponent has just returned for a finite base and an integer exponent.
IntegerPowerEvaluated ==
    /\ via = "exponent"
    /\ pc = "evaluated"
    /\ numSelf.k = "Rat"
    /\ numArg.k = "Rat"
    /\ numArg.d = 1

\* C19: for every finite rational base a, every integer exponent n,
\* positive, zero or negative, and every precision P, exponent(a, n, P) is
\* the exact rational a^n, with a^0 = 1 and a^(-n) = 1/(a^n).
C19_IntegerPowerExact ==
    IntegerPowerEvaluated => result = Ok(ExactPower(numSelf, numArg.n))

\* The part of C19 about the exponents other than zero, which holds.
C19_NonZeroPowerExact ==
    (IntegerPowerEvaluated /\ numArg.n # 0) => result = Ok(ExactPower(numSelf, numArg.n))

\* C20: exponent and root never panic; for every pair of operands, Infinity
\* or NaN in either place and a zero base or radicand among them, they give
\* a Number; they give self when self is Infinity or NaN, and root gives NaN
\* when self is negative. (A call whose Newton iteration
\* cannot end has neither returned nor panicked.)
C20_NeverPanics ==
    (via \in {"exponent", "root"} /\ pc = "evaluated") =>
        /\ result.kind \in {"ok", "running"}
        /\ numSelf.k \in {"Infinity", "NaN"} => result = Ok(numSelf)
        /\ (via = "root" /\ numSelf.k = "Rat" /\ numSelf.n < 0) => result = Ok(NaN)

\* The part of C20 about self, which holds: an Infinity or NaN comes back as
\* it is, and the root of a negative number is NaN.
C20_SelfPassesThrough ==
    (via \in {"exponent", "root"} /\ pc = "evaluated") =>
        /\ numSelf.k \in {"Infinity", "NaN"} => result = Ok(numSelf)
        /\ (via = "root" /\ numSelf.k = "Rat" /\ numSelf.n < 0) => result = Ok(NaN)

(***************************************************************************)
(* The Newton-Raphson loop of Number::root, one iteration per step.        *)
(***************************************************************************)
\* Radicands of the root calls whose loop is run step by step, all at
\* prec = 0, where every product of the iteration fits 32 bits.
NewtonRadicands ==
    {Int2Num(0), Rat(1, 4), Rat(1, 2), Int2Num(1), Rat(3, 2), Int2Num(2), Int2Num(3),
     Int2Num(4), Int2Num(9), Int2Num(49), Rat(9, 4), Rat(31, 10), Rat(7, 22)}

\* root calls <<self, root>>: the square root of every radicand, and the
\* degree 1 for some of them.
NewtonCalls ==
    (NewtonRadicands \X {Int2Num(2)})
        \cup ({Int2Num(0), Rat(1, 2), Int2Num(2), Int2Num(9)} \X {Int2Num(1)})

\* let min_move = BigFraction::new(1u8, TEN_BIGINT.pow(prec + 2))
min_move(prec) == Rat(1, 10 ^ (prec + 2))

\* let prec_working = TEN_BIGINT.pow(prec + 3)
prec_working(prec) == 10 ^ (prec + 3)

\* The state of root when it reaches the while loop: x = a / 2, last_move = 1.
InitNewton ==
    /\ \E call \in NewtonCalls :
           /\ numSelf = call[1]
           /\ numArg = call[2]
    /\ numPrec = 0
    /\ xIter = divide(numSelf, Int2Num(2))
    /\ lastMove = Int2Num(1)
    /\ historyItems = 0
    /\ pc = "loop"
    /\ result = None
    /\ via = "root"
    /\ tokens = None
    /\ session = SessionNew
    /\ before = SessionNew
    /\ text = <<>>
    /\ out = None
    /\ vtAtParse = <<>>
    /\ lastStore = <<>>
    /\ entryTable = <<>>
    /\ table = VarTableNew
    /\ tableRes = None
    /\ tableBefore = VarTableNew
    /\ tableArg = None

NewtonUnchanged ==
    UNCHANGED <<text, via, out, session, vtAtParse, before, lastStore, entryTable,
                table, tableRes, tableBefore, tableArg, tokens, numSelf, numArg, numPrec,
                historyItems>>

\* while &last_move >= &min_move { ... }: the test holds and the body is
\* entered. x is rounded to the working precision and last_move takes the
\* rounded x.
NewtonRound ==
    /\ pc = "loop"
    /\ NumCmp(lastMove, min_move(numPrec)) \in {"Greater", "Equal"}
    /\ \E rounded \in {round_denom(xIter, prec_working(numPrec))} :
           IF rounded.kind = "panic"
           THEN /\ pc' = "crashed"
                /\ result' = rounded
                /\ UNCHANGED <<xIter, lastMove>>
           ELSE /\ xIter' = rounded.val
                /\ lastMove' = rounded.val
                /\ pc' = "body"
                /\ UNCHANGED result
    /\ NewtonUnchanged

\* The rest of the body: x = x - (x**rt - a)/(rt * x**lr), and last_move
\* becomes the distance between the new x and the rounded one. Each
\* intermediate value is computed once.
NewtonStep ==
    /\ pc = "body"
    /\ \E rt \in {Int2Num(Abs(numArg.n))} :
       \E lroot \in {subtract(rt, Int2Num(1))} :
       \E powRt \in {pow(xIter, rt)} :
       \E powLroot \in {pow(xIter, lroot)} :
       \E over \in {subtract(powRt, numSelf)} :
       \E under \in {multiply(rt, powLroot)} :
       \E quotient \in {divide(over, under)} :
       \E x1 \in {subtract(xIter, quotient)} :
       \E moved \in {subtract(x1, lastMove)} :
           /\ xIter' = x1
           /\ lastMove' = NumAbs(moved)
    /\ pc' = "loop"
    /\ UNCHANGED result
    /\ NewtonUnchanged

\* let prec_final = TEN_BIGINT.pow(prec + 1)
prec_final(prec) == 10 ^ (prec + 1)

\* The test of the while loop fails and root finishes: x is rounded to the
\* final precision, inverted for a negative root argument, and raised to the
\* denominator of the root argument when that is not 1.
NewtonExit ==
    /\ pc = "loop"
    /\ NumCmp(lastMove, min_move(numPrec)) \notin {"Greater", "Equal"}
    /\ \E fin \in {round_denom(xIter, prec_final(numPrec))} :
           IF fin.kind = "panic"
           THEN /\ pc' = "crashed"
                /\ result' = fin
           ELSE \E res \in {IF numArg.n < 0 THEN divide(Int2Num(1), fin.val) ELSE fin.val} :
                    /\ pc' = "exited"
                    /\ result' = IF numArg.d = 1 THEN Ok(res)
                                 ELSE exponent(res, Int2Num(numArg.d), numPrec)
    /\ UNCHANGED <<xIter, lastMove>>
    /\ NewtonUnchanged

NextNewton == NewtonRound \/ NewtonStep \/ NewtonExit

\* root runs on one thread that is never suspended: a step that can be taken
\* is taken.
SpecNewton == InitNewton /\ [][NextNewton]_vars /\ WF_vars(NextNewton)

\* C21: for every non-negative finite rational self, every root argument
\* with a positive integer numerator and every precision, the Newton-Raphson
\* loop of root exits after finitely many iterations.
C21_NewtonLoopExits == <>(pc \in {"exited", "crashed"})

\* The radicands of C21 for which the loop does exit: the perfect squares,
\* 2 and 1/2 under the square root.
C21_SquaresExit ==
    (numArg = Int2Num(2) /\ numSelf \in {Int2Num(1), Int2Num(2), Int2Num(4), Rat(1, 4), Rat(1, 2)})
        => <>(pc = "exited")

\* The positive rationals a whose powers a^n are among the radicands.
PowerBases == {Rat(1, 2), Int2Num(1), Rat(3, 2), Int2Num(2), Int2Num(3), Int2Num(7), Int2Num(9)}

\* The call is root(a^n, n, P) for one of these a.
IsPowerCall == \E a \in PowerBases : Power(a, numArg.n) = numSelf

ClaimedRoot == CHOOSE a \in PowerBases : Power(a, numArg.n) = numSelf

\* 10^-(P+2) + 10^-(P+1)
RootTolerance(prec) == add(Rat(1, 10 ^ (prec + 2)), Rat(1, 10 ^ (prec + 1)))

\* root has returned a Number that differs from a by less than the tolerance.
RootIsClose ==
    /\ IsPowerCall
    /\ result.kind = "ok"
    /\ NumCmp(NumAbs(subtract(result.val, ClaimedRoot)), RootTolerance(numPrec)) = "Less"

\* C22: for every positive rational a, positive integer n and precision P,
\* root(a^n, n, P) differs from a by less than 10^-(P+2) + 10^-(P+1): the
\* call returns, and what it returns is that close to a.
C22_RootOfPowerIsClose == IsPowerCall => <>(pc = "exited" /\ RootIsClose)

\* The part of C22 that holds: a root of a^n that is returned is within the
\* tolerance of a.
C22_ReturnedRootIsClose == (pc = "exited" /\ IsPowerCall) => RootIsClose

(***************************************************************************)
(* Number::to_string and the way back through the parser.                  *)
(***************************************************************************)
\* Largest integer literal of the rendered expressions.
MaxLiteral == 8

\* Largest display precision of the rendered expressions.
MaxDigits == 2

\* The decimal digits of a natural number.
RECURSIVE IntDigits(_)
IntDigits(n) ==
    IF n < 10 THEN <<DigitChar(n)>> ELSE IntDigits(n \div 10) \o <<DigitChar(n % 10)>>

\* k digits of rem/d after the decimal point, by long division.
RECURSIVE FracDigits(_, _, _)
FracDigits(rem, d, k) ==
    IF k = 0 THEN <<>>
    ELSE <<DigitChar((rem * 10) \div d)>> \o FracDigits((rem * 10) % d, d, k - 1)

RECURSIVE TrimZeros(_)
TrimZeros(str) ==
    IF str # <<>> /\ str[Len(str)] = "0" THEN TrimZeros(SubSeq(str, 1, Len(str) - 1))
    ELSE str

\* A rendering that leaves the decimal point out.
FormatNoPoint(x, prec) ==
    (IF x.n < 0 THEN <<"-">> ELSE <<>>)
        \o IntDigits(Abs(x.n) \div x.d)
        \o TrimZeros(FracDigits(Abs(x.n) % x.d, x.d, prec))

\* format!("{num:.prec$}") of a finite fraction: the sign, the integer part
\* and at most prec digits after the point, cut off and not rounded, without
\* trailing zeros and without the point when no digit is left.
Format(x, prec) ==
    LET frac == TrimZeros(FracDigits(Abs(x.n) % x.d, x.d, prec))
    IN  (IF x.n < 0 THEN <<"-">> ELSE <<>>)
            \o IntDigits(Abs(x.n) \div x.d)
            \o (IF frac = <<>> THEN <<>> ELSE <<".">> \o frac)

\* A to_string that never postfixes the three dots.
to_string_Unmarked(x, prec) == Ok(Format(x, prec))

\* Number::to_string
to_string(x, prec) ==
    LET base_str == Format(x, prec)
        printed_value == BigFractionFromStr(base_str)
    IN  IF printed_value.kind # "ok" THEN Panic("unwrap on Err")
        ELSE IF printed_value.val # x THEN Ok(base_str \o <<".", ".", ".">>)
        ELSE Ok(base_str)

Literals == {<<DigitChar(k)>> : k \in 0..MaxLiteral}

\* Expressions of integer literals: a op b, and 0 - a / b for the negative
\* fractions. A division by a literal 0 is left out: it gives an Infinity,
\* which is not a finite Number.
RenderTexts ==
    {a \o <<op>> \o b : a \in Literals, op \in {"+", "-", "*"}, b \in Literals}
        \cup {a \o <<"/">> \o b : a \in Literals, b \in Literals \ {<<"0">>}}
        \cup {<<"0", "-">> \o a \o <<"/">> \o b : a \in Literals, b \in Literals \ {<<"0">>}}

\* A new session with the display precision set.
RenderSession(prec) == [SessionNew EXCEPT !.decimal_places = prec]

\* parse_str followed by simplify: the Result of simplify, or the parser's error.
ParseAndSimplify(string, s) ==
    LET parsed == parse_str(string, s)
    IN  IF parsed.kind # "ok" THEN parsed ELSE simplify(parsed.val, s).res

InitRender ==
    /\ text \in RenderTexts
    /\ numPrec \in 0..MaxDigits
    /\ pc = "idle"
    /\ numSelf = None
    /\ out = None
    /\ result = None
    /\ via = "new"
    /\ numArg = None
    /\ xIter = None
    /\ lastMove = None
    /\ historyItems = 0
    /\ tokens = None
    /\ session = SessionNew
    /\ before = SessionNew
    /\ vtAtParse = <<>>
    /\ lastStore = <<>>
    /\ entryTable = <<>>
    /\ table = VarTableNew
    /\ tableRes = None
    /\ tableBefore = VarTableNew
    /\ tableArg = None

RenderUnchanged ==
    UNCHANGED <<text, via, session, vtAtParse, before, lastStore, entryTable, table,
                tableRes, tableBefore, tableArg, numArg, numPrec, xIter, lastMove, historyItems>>

\* The expression is parsed and simplified to a Number.
RenderEvaluate ==
    /\ pc = "idle"
    /\ \E r \in {ParseAndSimplify(text, RenderSession(numPrec))} :
           /\ r.kind = "ok"
           /\ r.val.t = "Number"
           /\ tokens' = r.val
           /\ numSelf' = r.val.number
    /\ pc' = "evaluated"
    /\ UNCHANGED <<out, result>>
    /\ RenderUnchanged

\* Token::to_string of the Number: number.to_string(session.decimal_places)
RenderToString ==
    /\ pc = "evaluated"
    /\ out' = to_string(numSelf, RenderSession(numPrec).decimal_places)
    /\ pc' = "rendered"
    /\ UNCHANGED <<tokens, numSelf, result>>
    /\ RenderUnchanged

\* The rendered text is parsed and simplified in its turn.
RenderReparse ==
    /\ pc = "rendered"
    /\ out.kind = "ok"
    /\ result' = ParseAndSimplify(out.val, RenderSession(numPrec))
    /\ pc' = "reparsed"
    /\ UNCHANGED <<tokens, numSelf, out>>
    /\ RenderUnchanged

NextRender == RenderEvaluate \/ RenderToString \/ RenderReparse

SpecRender == InitRender /\ [][NextRender]_vars

\* x has at most prec decimal digits: x * 10^prec is an integer.
Representable(x, prec) == (Abs(x.n) * (10 ^ prec)) % x.d = 0

\* The text ends with the three dots.
Marked(str) == Len(str) >= 3 /\ SubSeq(str, Len(str) - 2, Len(str)) = <<".", ".", ".">>

Unmarked(str) == IF Marked(str) THEN SubSeq(str, 1, Len(str) - 3) ELSE str

\* C23: for every finite Number x and precision P, to_string(x, P) ends with
\* "..." exactly when the P-digit rendering, read back as a number, differs
\* from x; a value with at most P decimal digits is rendered without it.
C23_MarkerIffLossy ==
    pc \in {"rendered", "reparsed"} =>
        /\ out.kind = "ok"
        /\ Marked(out.val) <=> BigFractionFromStr(Unmarked(out.val)) # Ok(numSelf)
        /\ Representable(numSelf, numPrec) => ~Marked(out.val)

\* A negative fraction is rendered with the marker, and one without.
C23_Witness ==
    /\ pc = "rendered"
    /\ numSelf = Rat(-1, 3)
    /\ numPrec = 2
    /\ out = Ok(<<"-", "0", ".", "3", "3", ".", ".", ".">>)

C23_WitnessExact ==
    /\ pc = "rendered"
    /\ numSelf = Rat(-1, 4)
    /\ numPrec = 2
    /\ out = Ok(<<"-", "0", ".", "2", "5">>)

\* C24: for every expression of integer literals and + - * / and every
\* display precision, parsing and simplifying the expression to a Number,
\* rendering it, and parsing and simplifying the rendered text gives a
\* structurally equal Number.
C24_RenderRoundTrip == pc = "reparsed" => result = Ok(tokens)

\* C24 for the values that have at most P decimal digits: the round trip
\* gives the same Number.
C24_ExactRoundTrip ==
    (pc = "reparsed" /\ Representable(numSelf, numPrec)) => result = Ok(tokens)

\* -1/4 at two digits goes through "-0.25" and comes back.
C24_Witness ==
    /\ pc = "reparsed"
    /\ numSelf = Rat(-1, 4)
    /\ numPrec = 2
    /\ out = Ok(<<"-", "0", ".", "2", "5">>)
    /\ result = Ok(TNumber(Rat(-1, 4)))

(***************************************************************************)
(* The preprocessing of parse_str.                                         *)
(***************************************************************************)
\* The input of parse_str without its whitespace and its comment.
Stripped(string) == StripComment(StripWhitespace(string))

\* The minus at position i is a sign: it is the first character, or the
\* character before it is one of ( = - + / * ^.
IsSign(str, i) == str[i] = "-" /\ (i = 1 \/ str[i - 1] \in NEGATIVE_PREFIX)

\* The string with every sign replaced by the marker, as the claim has it.
ClaimedCleaned(str) == [i \in 1..Len(str) |-> IF IsSign(str, i) THEN NEG_SYMBOL[1] ELSE str[i]]

\* C25: in the preprocessing of parse_str every minus sign that is the first
\* character of the cleaned input, or whose preceding character is one of
\* ( = - + / * ^, is replaced by the unary-negative marker, each minus of a
\* run of three or more included, and every other minus is left as it is.
C25_EverySignReplaced ==
    via = "parse_str" => Cleaned(text) = ClaimedCleaned(Stripped(text))

\* The part of C25 that holds: the replacement keeps the length, changes
\* nothing but signs, leaves no minus that is not a sign changed, and
\* replaces every sign whose predecessor is not a minus.
C25_OnlySignsReplaced ==
    via = "parse_str" =>
        LET str == Stripped(text)
            cleaned == Cleaned(text)
        IN  /\ Len(cleaned) = Len(str)
            /\ \A i \in 1..Len(str) :
                   /\ ~IsSign(str, i) => cleaned[i] = str[i]
                   /\ cleaned[i] # str[i] => cleaned[i] = NEG_SYMBOL[1]
                   /\ (IsSign(str, i) /\ (i = 1 \/ str[i - 1] # "-")) =>
                          cleaned[i] = NEG_SYMBOL[1]

(***************************************************************************)
(* match_outside_parenthesis.                                              *)
(***************************************************************************)
\* What the claim gives for a search: the position of the first character
\* of the leftmost occurrence outside parentheses, None without one.
ClaimedMatch(string, symbol) ==
    IF HasOutside(string, symbol) THEN Some(Leftmost(string, symbol)) ELSE None

\* C26: for every balanced string and every operator symbol, of one or of
\* two characters, match_outside_parenthesis returns the index of the first
\* character of the leftmost occurrence that lies entirely at depth zero,
\* and None when there is none; an occurrence at index 0 and one that
\* overlaps a failed partial match are found like any other.
C26_LeftmostAtDepthZero ==
    (via = "parse" /\ ~Unbalanced(text)) =>
        \A o \in 1..Len(ORDER_OF_OPS) :
            match_outside_parenthesis(text, ORDER_OF_OPS[o]) = ClaimedMatch(text, ORDER_OF_OPS[o])

\* The part of C26 that holds: the symbols of one character, in texts of
\* one-byte characters.
C26_OneCharacterSymbols ==
    (via = "parse" /\ ~Unbalanced(text) /\ IsAscii(text)) =>
        \A o \in 1..Len(ORDER_OF_OPS) :
            Len(ORDER_OF_OPS[o]) = 1 =>
                match_outside_parenthesis(text, ORDER_OF_OPS[o])
                    = ClaimedMatch(text, ORDER_OF_OPS[o])

(***************************************************************************)
(* The bindings of the symbol table.                                       *)
(***************************************************************************)
\* A tree that simplify leaves as it is: leaves that are a Number or a
\* Boolean, and arithmetic and Negative nodes over such trees with an
\* operand that is no Number leaf.
RECURSIVE FullySimplified(_)
FullySimplified(tree) ==
    IF tree.t \in {"Number", "Boolean"} THEN TRUE
    ELSE IF tree.t \in ArithmeticVariants
    THEN /\ FullySimplified(tree.left)
         /\ FullySimplified(tree.right)
         /\ ~(tree.left.t = "Number" /\ tree.right.t = "Number")
    ELSE IF tree.t = "Negative"
    THEN FullySimplified(tree.expression) /\ tree.expression.t # "Number"
    ELSE FALSE

\* C27: in every state reachable by parse_str followed by simplify or
\* get_equality, every binding of the symbol table holds a tree that
\* simplify maps to itself: no Variable, Parenthesis, Answer, Store or
\* Equality node, and no arithmetic or Negative node whose operands are all
\* Number leaves.
C27_BindingsAreSimplified ==
    \A i \in 1..Len(session.vartable) :
        /\ FullySimplified(session.vartable[i].tokens)
        /\ simplify(session.vartable[i].tokens, session)
               = [res |-> Ok(session.vartable[i].tokens), s |-> session]

\* x is bound to (true + 1) * 2, which cannot be folded, after b was bound
\* through an Equality.
C27_Witness ==
    /\ pc = "evaluated"
    /\ \E i \in 1..Len(session.vartable) :
           /\ session.vartable[i].id = <<"x">>
           /\ session.vartable[i].tokens
                  = TBinary("Multiply",
                            TBinary("Add", TBoolean(TRUE), TNumber(Int2Num(1))),
                            TNumber(Int2Num(2)))

(***************************************************************************)
(* Answer references in the history.                                       *)
(***************************************************************************)
\* The uuids of the Answer nodes of a tree.
RECURSIVE AnswerUuids(_)
AnswerUuids(tree) ==
    IF tree.t \in BinaryVariants THEN AnswerUuids(tree.left) \cup AnswerUuids(tree.right)
    ELSE IF tree.t = "Answer" THEN {tree.uuid}
    ELSE IF tree.t \in {"Parenthesis", "Negative"} THEN AnswerUuids(tree.expression)
    ELSE IF tree.t = "Store" THEN AnswerUuids(tree.tokens)
    ELSE IF tree.t = "Variable" THEN AnswerUuids(tree.variable.tokens)
    ELSE {}

\* Following the Answer nodes of a tree, as simplify does, ends within hops
\* lookups on every path. A lookup that finds no entry ends the path.
RECURSIVE Resolves(_, _, _)
Resolves(tree, s, hops) ==
    IF tree.t \in BinaryVariants
    THEN Resolves(tree.left, s, hops) /\ Resolves(tree.right, s, hops)
    ELSE IF tree.t = "Answer"
    THEN \/ get_entry_from_uuid(s, tree.uuid).kind # "some"
         \/ /\ hops > 0
            /\ Resolves(without_equality(get_entry_from_uuid(s, tree.uuid).val), s, hops - 1)
    ELSE IF tree.t \in {"Parenthesis", "Negative"} THEN Resolves(tree.expression, s, hops)
    ELSE IF tree.t = "Store" THEN Resolves(tree.tokens, s, hops)
    ELSE IF tree.t = "Variable" THEN Resolves(tree.variable.tokens, s, hops)
    ELSE TRUE

\* C28: in every session built by submit cycles, an Answer node inside the
\* history entry i identifies only entries appended before i; resolving
\* the answer references never cycles, and simplify comes to an end.
C28_AnswersPointBack ==
    LET all == get_entries(session)
    IN  /\ \A i \in 1..Len(all) : \A j \in 1..Len(all) :
               all[j].entry_uuid \in AnswerUuids(all[i].expression) => j < i
        /\ \A i \in 1..Len(all) : Resolves(all[i].expression, session, Len(all))
        /\ pc = "parsed" =>
               /\ Resolves(out.val, session, Len(all))
               /\ simplify(out.val, session).res.kind \in {"ok", "err", "panic"}

\* The second entry of the session refers to the first, which refers to an
\* entry of an earlier session.
C28_Witness ==
    /\ Len(session.entries) >= 2
    /\ session.previous_entries # <<>>
    /\ session.entries[1].expression.left = TAnswer(session.previous_entries[1].entry_uuid)
    /\ session.entries[2].expression.left = TAnswer(session.entries[1].entry_uuid)

(***************************************************************************)
(* The answer arm of parse and the text left of the marker                 *)
(* (parser.rs 176-200).                                                    *)
(***************************************************************************)
\* The characters the operator symbols of ORDER_OF_OPS are made of.
OperatorChars ==
    UNION {{ORDER_OF_OPS[o][i] : i \in 1..Len(ORDER_OF_OPS[o])} : o \in 1..Len(ORDER_OF_OPS)}

\* The position of the first answer marker of string, 0 when it has none.
MarkerAt(string) ==
    IF \E i \in 1..Len(string) : string[i] = "@"
    THEN CHOOSE i \in 1..Len(string) :
            string[i] = "@" /\ \A j \in 1..(i - 1) : string[j] # "@"
    ELSE 0

LeftOfMarker(string) == SubSeq(string, 1, MarkerAt(string) - 1)

IndexOfMarker(string) == SubSeq(string, MarkerAt(string) + 1, Len(string))

Count(string, c) == Cardinality({i \in 1..Len(string) : string[i] = c})

\* string is "L@k": L is not empty and has no character of an operator
\* symbol, and k is the index of an entry of s.
IsLeftAnswerText(string, s) ==
    /\ MarkerAt(string) > 1
    /\ \A i \in 1..Len(LeftOfMarker(string)) : LeftOfMarker(string)[i] \notin OperatorChars
    /\ AllDigits(IndexOfMarker(string))
    /\ get_entry_inv_index(s, DecValue(IndexOfMarker(string))).kind = "some"

\* The Answer node parse gives for "@k" alone, k being the index part of string.
BareAnswer(string, s) == parse(ANSWER_SYMBOL \o IndexOfMarker(string), s)

\* C29 as stated: for every non-empty operator-free L and every in-range k,
\* parse("L@k") succeeds and returns the Answer node of parse("@k").
C29_LeftIsIgnored ==
    (via = "parse" /\ IsLeftAnswerText(text, session))
        => /\ out.kind = "ok"
           /\ out = BareAnswer(text, session)

\* The part of C29 that holds: when L is non-empty, operator-free, of
\* one-byte characters and has as many opening as closing parentheses, and k
\* is in range, parse("L@k") succeeds and returns the Answer node that
\* parse("@k") returns; L is neither parsed nor validated.
C29_PairedLeftIsIgnored ==
    (/\ via = "parse"
     /\ IsLeftAnswerText(text, session)
     /\ IsAscii(text)
     /\ Count(LeftOfMarker(text), "(") = Count(LeftOfMarker(text), ")"))
        => /\ out.kind = "ok"
           /\ out = BareAnswer(text, session)
           /\ out.val =
                TAnswer(get_entry_inv_index(session, DecValue(IndexOfMarker(text))).val.entry_uuid)

\* "y@1" has been parsed: y is not a variable of the session, and the
\* result is the Answer node of the entry before the last.
C29_Witness ==
    /\ via = "parse"
    /\ text = <<"y", "@", "1">>
    /\ parse(<<"y">>, session).kind = "err"
    /\ out = Ok(TAnswer(session.previous_entries[1].entry_uuid))

(***************************************************************************)
(* The entry bar of the TUI (tui.rs).  The cache holds the session; a      *)
(* handler works on a clone of the cache and stores the clone back with    *)
(* set_user_data.  historyItems is the number of items of the history      *)
(* SelectView.                                                             *)
(***************************************************************************)
\* Session::update_file: the write of the session's bincode succeeds or not.
update_file(written) == IF written THEN Ok(None) ELSE Err("update_file")

\* Tui::new and Tui::layout: the session goes into the cache and the history
\* list gets one item for each entry of get_entries.
InitTui ==
    /\ \E start \in SessionStarts :
           /\ session = IF start.kind = "ok" THEN start.val ELSE SessionNew
           /\ pc = IF start.kind = "ok" THEN "idle" ELSE "crashed"
    /\ historyItems = Len(get_entries(session))
    /\ text = <<>>
    /\ via = "none"
    /\ out = None
    /\ vtAtParse = <<>>
    /\ result = None
    /\ before = session
    /\ lastStore = <<>>
    /\ entryTable = <<>>
    /\ table = VarTableNew
    /\ tableRes = None
    /\ tableBefore = VarTableNew
    /\ tableArg = None
    /\ tokens = None
    /\ numSelf = None
    /\ numArg = None
    /\ numPrec = 0
    /\ xIter = None
    /\ lastMove = None

\* Tui::entry_bar_on_submit(cursive, text).  An Err of parse_str or of
\* get_equality opens a dialog and returns; a panic ends the program.  Then
\* the entry is added to the clone's session and to the history list, and
\* update_file is called: on Err the handler returns, and only after Ok does
\* set_user_data store the clone.
entry_bar_on_submit(string, written) ==
    /\ pc = "idle"
    /\ historyItems - Len(session.previous_entries) < MaxSubmits
    /\ text' = string
    /\ via' = "submit"
    /\ before' = session
    /\ \E parsed \in {parse_str(string, session)} :
       \E equality \in {IF parsed.kind = "ok" THEN get_equality(parsed.val, session)
                        ELSE [res |-> parsed, s |-> session]} :
       \E entry \in (IF equality.res.kind = "ok"
                     THEN HistoryEntryNew(historyItems - Len(session.previous_entries) + 1,
                                          equality.res.val, equality.s)
                     ELSE {equality.res}) :
           /\ out' = parsed
           /\ IF entry.kind = "panic"
              THEN /\ pc' = "crashed"
                   /\ result' = entry
                   /\ UNCHANGED <<session, historyItems>>
              ELSE IF entry.kind = "err"
              THEN /\ pc' = "idle"
                   /\ result' = entry
                   /\ UNCHANGED <<session, historyItems>>
              ELSE /\ pc' = "idle"
                   /\ historyItems' = historyItems + 1
                   /\ result' = update_file(written)
                   /\ session' = IF update_file(written).kind = "ok"
                                 THEN add_entry(equality.s, entry.val)
                                 ELSE session
    /\ UNCHANGED <<vtAtParse, lastStore, entryTable, table, tableRes, tableBefore,
                   tableArg, tokens, numSelf, numArg, numPrec, xIter, lastMove>>

NextTui == \E string \in SessionInputs, written \in BOOLEAN : entry_bar_on_submit(string, written)

SpecTui == InitTui /\ [][NextTui]_vars

\* C30: after any sequence of submits the history list has as many items as
\* the session stored in the cache has entries, previous and current
\* together, and a submit that failed, in parse_str, in get_equality or in
\* update_file, has left the stored session as it was.
C30_ListMatchesStoredSession ==
    /\ historyItems = Len(get_entries(session))
    /\ (via = "submit" /\ result.kind # "ok") => session = before

\* The second half of C30 alone: a submit that failed has left the stored
\* session as it was.
C30_FailedSubmitKeepsSession ==
    (via = "submit" /\ result.kind # "ok") => session = before

\* The history list never has fewer items than the stored session has entries.
C30_ListNeverShort == historyItems >= Len(get_entries(session))

====
